---------------------------- MODULE Spec2Model ----------------------------
(***************************************************************************)
(* A model of PySOEM's master / slave coordination layer                   *)
(* (src/src/pysoem/pysoem.pyx).  The SOEM engine below the wrapper is the  *)
(* environment: every low-level call is one step inside the handler that   *)
(* makes it, and what the engine answers (its result, the error records it *)
(* queues, the callbacks it invokes and whether they raise) is an input of *)
(* the handler's action.                                                   *)
(*                                                                         *)
(* Slave handles are those of the current enumeration; their own state    *)
(* (_cd, _emcy_callbacks, _eoe_rx_info) is kept by 1-based position.       *)
(* `last` records what the most recent call did: the low-level calls it    *)
(* made, what it dispatched, and how it ended.                             *)
(***************************************************************************)
EXTENDS Integers, Sequences, FiniteSets

VARIABLES
    context_initialized,  \* CdefMaster.context_initialized
    slaves,               \* Master.slaves: None, or the list of handles
    ec_slavecount,        \* CdefMaster._ec_slavecount
    ec_slave,             \* CdefMaster._ec_slave[1..]: the engine's slave table
    cd,                   \* CdefSlave._cd of each handle: func, exc_raised, exc_info
    emcy_callbacks,       \* CdefSlave._emcy_callbacks of each handle
    elist,                \* the engine's error queue (ecx_pusherror / ecx_poperror)
    EOEhook,              \* ecx_contextt.EOEhook: "NULL" or "_eoe_hook"
    sdo_read_timeout,     \* CdefMaster.sdo_read_timeout
    sdo_write_timeout,    \* CdefMaster.sdo_write_timeout
    ec_group,             \* CdefMaster._ec_group[0]: outputsWKC, inputsWKC
    eoe_callback,         \* Master._eoe_callback
    eoe_rx_info,          \* CdefSlave._eoe_rx_info of each handle
    assigned,             \* per slave, the property assigned last on its handle
                          \* (config_func or setup_func) and the value assigned
    od,                   \* per slave, the CdefCoeObject instances its od property
                          \* has handed out, one per read: the two flags of each
    fed,                  \* per slave, the fragments of the frame on its way: those
                          \* received in order since the frame's first one
    with_block,           \* where the caller of pysoem.open(ifname) stands:
                          \* "outside" or "inside" the with-block
    last                  \* the most recent call: inputs, low-level calls, outcome

\* The two timeouts CdefMasterSettings points to.
timeouts == <<sdo_read_timeout, sdo_write_timeout>>

vars == <<context_initialized, slaves, ec_slavecount, ec_slave, cd,
          emcy_callbacks, elist, EOEhook, timeouts, ec_group, eoe_callback,
          eoe_rx_info, fed, assigned, od, with_block, last>>

-----------------------------------------------------------------------------
(* Bounds of the model *)

\* Capacity the model gives the engine's error queue.
MaxQueue == 2

\* Emergency subscribers one handle may register.
MaxSubs == 2

\* Slave positions of the modelled bus.
Positions == {1, 2}

-----------------------------------------------------------------------------
(* Program constants *)

EC_ERR_TYPE_SDO_ERROR == 0
EC_ERR_TYPE_EMERGENCY == 1
EC_ERR_TYPE_PACKET_ERROR == 3
EC_ERR_TYPE_FOE_ERROR == 5
EC_ERR_TYPE_MBX_ERROR == 9
EC_ERR_TYPE_EOE_INVALID_RX_DATA == 11

EC_STATE_INIT == 1
EC_STATE_PRE_OP == 2
EC_STATE_SAFE_OP == 4
EC_STATE_OPERATIONAL == 8

ECT_REG_WD_DIV == 1024
ECT_REG_WD_TIME_PDI == 1040
ECT_REG_WD_TIME_PROCESSDATA == 1056
ECT_REG_SM0 == 2048
ECT_REG_SM1 == ECT_REG_SM0 + 8

STATIC_SDO_READ_BUFFER_SIZE == 256

EC_IOMAPSIZE == 4096

\* sizeof(_eoe_rx_data._rxbuf)
EOE_RXBUF_SIZE == 1500

\* The SDO timeouts a new master starts with, in us.
DEFAULT_SDO_TIMEOUT == 700000

\* The default of the `timeout` argument of foe_read and foe_write, in us.
DEFAULT_FOE_TIMEOUT == 200000

-----------------------------------------------------------------------------
(* Values *)

\* Python's None where an object is expected.
NoneObj == [kind |-> "None"]

\* A call that returned `v`.
Return(v) == [st |-> "return", exc |-> NoneObj, ret |-> v]

\* A call that raised `e`.
Raise(e) == [st |-> "raise", exc |-> e, ret |-> NoneObj]

IntObj(n) == [kind |-> "int", v |-> n]

\* A bytes object of n bytes; what the bytes are is not modelled, so that one
\* value stands for every content a buffer may hold, filled by the engine or not.
BytesObj(n) == [kind |-> "bytes", len |-> n]

\* An ec_errort the engine queues for slave s with type discriminant t.
ErrRec(s, t) ==
    [Slave |-> s, Etype |-> t, Index |-> 24576 + s, SubIdx |-> 1, AbortCode |-> 17,
     ErrorCode |-> 20 + s, ErrorReg |-> 31, b1 |-> 41, w1 |-> 51, w2 |-> 61]

\* class SdoError
SdoError(slave_pos, index, subindex, abort_code) ==
    [kind |-> "SdoError", slave_pos |-> slave_pos, index |-> index,
     subindex |-> subindex, abort_code |-> abort_code]

\* class Emergency
Emergency(slave_pos, error_code, error_reg, b1, w1, w2) ==
    [kind |-> "Emergency", slave_pos |-> slave_pos, error_code |-> error_code,
     error_reg |-> error_reg, b1 |-> b1, w1 |-> w1, w2 |-> w2]

\* class MailboxError
MailboxError(slave_pos, error_code) ==
    [kind |-> "MailboxError", slave_pos |-> slave_pos, error_code |-> error_code]

\* class PacketError
PacketError(slave_pos, error_code) ==
    [kind |-> "PacketError", slave_pos |-> slave_pos, error_code |-> error_code]

\* class WkcError
WkcError(wkc) == [kind |-> "WkcError", wkc |-> wkc]

\* class ConfigMapError
ConfigMapError(error_list) == [kind |-> "ConfigMapError", error_list |-> error_list]

\* An exception that carries no attribute the model reads.
Exc(name) == [kind |-> name]

NetworkInterfaceNotOpenError == Exc("NetworkInterfaceNotOpenError")

-----------------------------------------------------------------------------
(* The state after Master() *)

\* One entry of the engine's slave table as ecx_config_init leaves it.
SlaveEntry(state) ==
    [state |-> state, user |-> "NULL", PO2SOconfig |-> "NULL",
     SM0 |-> [StartAddr |-> 4096, SMlength |-> 128], mbx_wo |-> 4096, mbx_l |-> 128,
     SM1 |-> [StartAddr |-> 4224, SMlength |-> 128], mbx_ro |-> 4224, mbx_rl |-> 128]

\* _CallbackData of a fresh handle: every object field is None.
FreshCd == [func |-> "None", exc_raised |-> "None", exc_info |-> NoneObj]

\* _eoe_rx_data of a fresh handle: the struct is zeroed with the object.
FreshRxInfo ==
    [rxfragmentno |-> 0, rxframesize |-> 0, rxframeoffset |-> 0, rxframeno |-> 0,
     size_of_rx |-> 0]

\* `last` of a call `op` on handle `p` (0: the master): whether it found the context
\* initialized, the low-level calls it made and its outcome.  A handler fills in
\* the engine's answer (result), the error records it found queued (pending) and
\* those the engine queued during the call (queued), the configuration callbacks
\* that raised (raisers) and the callbacks it dispatched to.
\* A handle on which neither config_func nor setup_func was assigned.
NeverAssigned == [prop |-> "none", value |-> "None"]

Call(op, p, lowcalls, outcome) ==
    [op |-> op, slave |-> p, init |-> context_initialized, lowcalls |-> lowcalls,
     result |-> 0, pending |-> <<>>, queued |-> <<>>, raisers |-> {},
     dispatched |-> <<>>, timeout |-> 0, pd |-> [bytes |-> 0, bits |-> 0],
     size |-> 0, address |-> 0, fragment |-> NoneObj, fed |-> <<>>, frees |-> 0,
     given |-> 0, region |-> {}, written |-> {}, outcome |-> outcome]

Init ==
    /\ context_initialized = FALSE
    /\ slaves = [none |-> TRUE, items |-> <<>>]
    /\ ec_slavecount = 0
    /\ ec_slave = [p \in Positions |-> SlaveEntry(0)]
    /\ cd = [p \in Positions |-> FreshCd]
    /\ emcy_callbacks = [p \in Positions |-> <<>>]
    /\ elist = <<>>
    /\ EOEhook = "NULL"
    /\ sdo_read_timeout = DEFAULT_SDO_TIMEOUT
    /\ sdo_write_timeout = DEFAULT_SDO_TIMEOUT
    /\ ec_group = [outputsWKC |-> 0, inputsWKC |-> 0]
    /\ eoe_callback = "None"
    /\ eoe_rx_info = [p \in Positions |-> FreshRxInfo]
    /\ fed = [p \in Positions |-> <<>>]
    /\ assigned = [p \in Positions |-> NeverAssigned]
    /\ od = [p \in Positions |-> <<>>]
    /\ with_block = "outside"
    /\ last = [op |-> "Master", slave |-> 0, init |-> FALSE, lowcalls |-> <<>>,
               result |-> 0, pending |-> <<>>, queued |-> <<>>, raisers |-> {},
               dispatched |-> <<>>, timeout |-> 0, pd |-> [bytes |-> 0, bits |-> 0],
               size |-> 0, address |-> 0, fragment |-> NoneObj, fed |-> <<>>,
               frees |-> 0, given |-> 0, region |-> {}, written |-> {},
               outcome |-> Return(NoneObj)]

\* The handles a caller can hold: those in Master.slaves.
Handles == {p \in Positions : p <= Len(slaves.items)}

-----------------------------------------------------------------------------
(* Master: open, close, config_init *)

\* Master.open: ecx_init answers ret_val; 0 is a failure to bind the interface.
Open(ret_val) ==
    /\ context_initialized' = (IF ret_val = 0 THEN context_initialized ELSE TRUE)
    /\ last' = Call("open", 0, <<"ecx_init">>,
                    IF ret_val = 0 THEN Raise(Exc("ConnectionError")) ELSE Return(NoneObj))
    /\ UNCHANGED <<slaves, ec_slavecount, ec_slave, cd, emcy_callbacks, elist, EOEhook,
                   timeouts, ec_group, eoe_callback, eoe_rx_info, fed, assigned, od, with_block>>

\* A close that checks the context as the other methods do.
CloseChecked ==
    /\ context_initialized' = FALSE
    /\ last' = Call("close", 0, <<>>,
                    IF context_initialized THEN Return(NoneObj)
                    ELSE Raise(NetworkInterfaceNotOpenError))
    /\ UNCHANGED <<slaves, ec_slavecount, ec_slave, cd, emcy_callbacks, elist, EOEhook,
                   timeouts, ec_group, eoe_callback, eoe_rx_info, fed, assigned, od, with_block>>

\* Master.close: clears the flag, then ecx_close; no check of the context.
Close ==
    /\ context_initialized' = FALSE
    /\ last' = Call("close", 0, <<"ecx_close">>, Return(NoneObj))
    /\ UNCHANGED <<slaves, ec_slavecount, ec_slave, cd, emcy_callbacks, elist, EOEhook,
                   timeouts, ec_group, eoe_callback, eoe_rx_info, fed, assigned, od, with_block>>

\* CdefMaster._get_slave(pos), pos counted from 0: a new handle of position
\* pos + 1 on entry pos + 1 of the slave table.  `latest` tells the handles of
\* the enumeration under way from those made by an earlier one.
GetSlave(pos) == [pos |-> pos + 1, ec_slave |-> pos + 1, latest |-> TRUE]

\* A handle once a later config_init has run.
Earlier(h) == [h EXCEPT !.latest = FALSE]

\* A config_init that appends to the list it finds.
SlavesAppended(old, ret_val, count) ==
    [none |-> FALSE,
     items |-> [i \in 1..Len(old.items) |-> Earlier(old.items[i])] \o
               (IF ret_val > 0 THEN [i \in 1..count |-> GetSlave(i - 1)] ELSE <<>>)]

\* Master.slaves as config_init leaves it: an empty list, then one _get_slave(i)
\* for i in range(_ec_slavecount) when ret_val > 0.
SlavesAfterConfigInit(old, ret_val, count) ==
    [none |-> FALSE,
     items |-> IF ret_val > 0 THEN [i \in 1..count |-> GetSlave(i - 1)] ELSE <<>>]

\* Master.config_init: ecx_config_init rebuilds the slave table and answers
\* ret_val, the number of slaves found (not positive: none); the slaves it found
\* are left in `state`.  One new handle per slave when ret_val > 0.
ConfigInit(ret_val, state) ==
    IF ~context_initialized
    THEN /\ last' = Call("config_init", 0, <<>>, Raise(NetworkInterfaceNotOpenError))
         /\ UNCHANGED <<context_initialized, slaves, ec_slavecount, ec_slave, cd,
                        emcy_callbacks, elist, EOEhook,
                        timeouts, ec_group, eoe_callback, eoe_rx_info, fed, assigned, od, with_block>>
    ELSE LET count == IF ret_val > 0 THEN ret_val ELSE 0
         IN  /\ ec_slavecount' = count
             /\ ec_slave' = [p \in Positions |->
                                SlaveEntry(IF p <= count THEN state ELSE 0)]
             /\ slaves' = SlavesAfterConfigInit(slaves, ret_val, count)
             /\ eoe_rx_info' = [p \in Positions |-> FreshRxInfo]
             /\ fed' = [p \in Positions |-> <<>>]
             /\ assigned' = [p \in Positions |-> NeverAssigned]
             /\ od' = [p \in Positions |-> <<>>]
             /\ cd' = [p \in Positions |-> FreshCd]
             /\ emcy_callbacks' = [p \in Positions |-> <<>>]
             /\ last' = Call("config_init", 0, <<"ecx_config_init">>,
                             Return(IntObj(ret_val)))
             /\ UNCHANGED <<context_initialized, elist, EOEhook,
                            timeouts, ec_group, eoe_callback, with_block>>

-----------------------------------------------------------------------------
(* Operations that check the context and hand over to one engine call *)

\* Master methods of the form: check_context_is_initialized(); return ecx_...().
MasterPassThrough ==
    {"config_dc", "read_state", "write_state", "state_check", "send_processdata",
     "send_overlap_processdata", "receive_processdata"}

\* Slave methods of the same form.
SlavePassThrough ==
    {"dc_sync", "write_state", "state_check", "reconfig", "recover", "eeprom_read",
     "eoe_send_data"}

\* The engine function a pass-through method calls.
LowCallOf(op) ==
    CASE op = "config_dc" -> "ecx_configdc"
      [] op = "read_state" -> "ecx_readstate"
      [] op = "write_state" -> "ecx_writestate"
      [] op = "state_check" -> "ecx_statecheck"
      [] op = "send_processdata" -> "ecx_send_processdata"
      [] op = "send_overlap_processdata" -> "ecx_send_overlap_processdata"
      [] op = "receive_processdata" -> "ecx_receive_processdata"
      [] op = "dc_sync" -> "ecx_dcsync0"
      [] op = "reconfig" -> "ecx_reconfig_slave"
      [] op = "recover" -> "ecx_recover_slave"
      [] op = "eeprom_read" -> "ecx_readeeprom"
      [] op = "eoe_send_data" -> "ecx_EOEsend"

\* check_context_is_initialized, then the engine call, whose answer is returned.
PassThrough(op, p, answer) ==
    /\ last' = IF ~context_initialized
               THEN Call(op, p, <<>>, Raise(NetworkInterfaceNotOpenError))
               ELSE Call(op, p, <<LowCallOf(op)>>, Return(IntObj(answer)))
    /\ UNCHANGED <<context_initialized, slaves, ec_slavecount, ec_slave, cd,
                   emcy_callbacks, elist, EOEhook,
                   timeouts, ec_group, eoe_callback, eoe_rx_info, fed, assigned, od, with_block>>

MasterCall(op, answer) == PassThrough(op, 0, answer)

SlaveCall(op, p, answer) == p \in Handles /\ PassThrough(op, p, answer)

\* CdefSlave.eoe_set_ip: builds the settings and calls ecx_EOEsetIp; the method
\* holds no check of the context.
EoeSetIp(p, answer) ==
    /\ p \in Handles
    /\ last' = Call("eoe_set_ip", p, <<"ecx_EOEsetIp">>, Return(IntObj(answer)))
    /\ UNCHANGED <<context_initialized, slaves, ec_slavecount, ec_slave, cd,
                   emcy_callbacks, elist, EOEhook,
                   timeouts, ec_group, eoe_callback, eoe_rx_info, fed, assigned, od, with_block>>

\* Master.set_eoe_callback: installs or removes the receive hook; the method
\* holds no check of the context.
SetEoeCallback(callback) ==
    /\ EOEhook' = IF callback = "None" THEN "NULL" ELSE "_eoe_hook"
    /\ eoe_callback' = callback
    /\ last' = Call("set_eoe_callback", 0, <<"ecx_EOEdefinehook">>, Return(NoneObj))
    /\ UNCHANGED <<context_initialized, slaves, ec_slavecount, ec_slave, cd,
                   emcy_callbacks, elist,
                   timeouts, ec_group, eoe_rx_info, fed, assigned, od, with_block>>

\* The slave counts ecx_config_init may answer on the modelled bus.
FoundCounts == {0} \cup Positions

NextGate ==
    \/ \E r \in {0, 1} : Open(r)
    \/ Close
    \/ \E n \in FoundCounts : ConfigInit(n, EC_STATE_PRE_OP)
    \/ \E op \in MasterPassThrough, a \in {0, 1} : MasterCall(op, a)
    \/ \E op \in SlavePassThrough, p \in Positions, a \in {0, 1} : SlaveCall(op, p, a)
    \/ \E p \in Positions, a \in {0, 1} : EoeSetIp(p, a)
    \/ \E cb \in {"None", "cb"} : SetEoeCallback(cb)

SpecGate == Init /\ [][NextGate]_vars

\* C1: every public operation other than Master.open (close, which section 4.1
\* makes idempotent, left aside) raises NetworkInterfaceNotOpenError, without
\* making any low-level call, when it is invoked while the master is not
\* initialized.
C1_NotInitializedGate ==
    (last.op \notin {"Master", "open", "close"} /\ ~last.init)
        => (last.outcome = Raise(NetworkInterfaceNotOpenError) /\ last.lowcalls = <<>>)

-----------------------------------------------------------------------------
(* Slave: state, amend_mbx, set_watchdog *)

\* CdefSlave._set_state: writes the requested state into the slave table.
SetState(p, value) ==
    /\ p \in Handles
    /\ ec_slave' = [ec_slave EXCEPT ![p].state = value]
    /\ last' = Call("state", p, <<>>, Return(NoneObj))
    /\ UNCHANGED <<context_initialized, slaves, ec_slavecount, cd, emcy_callbacks,
                   elist, EOEhook,
                   timeouts, ec_group, eoe_callback, eoe_rx_info, fed, assigned, od, with_block>>

\* CdefSlave._fpwr: one ecx_FPWR; a working counter other than 1 raises WkcError().
fpwr(wkc) == IF wkc # 1 THEN Raise(WkcError(NoneObj)) ELSE Return(NoneObj)

\* CdefSlave._fprd: one ecx_FPRD; a working counter other than 1 raises WkcError(),
\* otherwise the register's content is returned.
fprd(wkc, content) == IF wkc # 1 THEN Raise(WkcError(NoneObj)) ELSE Return(IntObj(content))

\* The cached mailbox configuration after amend_mbx has assigned the new values.
AmendedEntry(e, mailbox, start_address, size) ==
    IF mailbox = "out"
    THEN [e EXCEPT !.SM0 = [StartAddr |-> start_address, SMlength |-> size],
                   !.mbx_wo = start_address, !.mbx_l = size]
    ELSE [e EXCEPT !.SM1 = [StartAddr |-> start_address, SMlength |-> size],
                   !.mbx_ro = start_address, !.mbx_rl = size]

\* CdefSlave.amend_mbx: clears the sync manager with a first register write
\* (working counter wkc1), assigns the cached configuration, then writes it with
\* a second register write (wkc2).  The slave's state is not read.
AmendMbx(p, mailbox, start_address, size, wkc1, wkc2) ==
    /\ p \in Handles
    /\ IF ~context_initialized
       THEN /\ last' = Call("amend_mbx", p, <<>>, Raise(NetworkInterfaceNotOpenError))
            /\ UNCHANGED ec_slave
       ELSE IF mailbox \notin {"out", "in"}
       THEN /\ last' = Call("amend_mbx", p, <<>>, Raise(Exc("AttributeError")))
            /\ UNCHANGED ec_slave
       ELSE IF fpwr(wkc1).st = "raise"
       THEN /\ last' = Call("amend_mbx", p, <<"ecx_FPWR">>, fpwr(wkc1))
            /\ UNCHANGED ec_slave
       ELSE /\ ec_slave' = [ec_slave EXCEPT
                                ![p] = AmendedEntry(@, mailbox, start_address, size)]
            /\ last' = Call("amend_mbx", p, <<"ecx_FPWR", "ecx_FPWR">>, fpwr(wkc2))
    /\ UNCHANGED <<context_initialized, slaves, ec_slavecount, cd, emcy_callbacks,
                   elist, EOEhook,
                   timeouts, ec_group, eoe_callback, eoe_rx_info, fed, assigned, od, with_block>>

\* The register a watchdog type names.
wd_type_to_reg_map(wd_type) ==
    IF wd_type = "pdi" THEN ECT_REG_WD_TIME_PDI ELSE ECT_REG_WD_TIME_PROCESSDATA

\* The watchdog time register value for wd_time_ms at divider register wd_div_reg.
wd_time_reg(wd_time_ms, wd_div_reg) ==
    (wd_time_ms * 1000000) \div (40 * (wd_div_reg + 2))

\* CdefSlave.set_watchdog: reads the divider (wkc_rd, wd_div_reg), computes the
\* register value and writes it (wkc_wr).  The slave's state is not read.
SetWatchdog(p, wd_type, wd_time_ms, wkc_rd, wd_div_reg, wkc_wr) ==
    /\ p \in Handles
    /\ last' =
         IF ~context_initialized
         THEN Call("set_watchdog", p, <<>>, Raise(NetworkInterfaceNotOpenError))
         ELSE IF wd_type \notin {"pdi", "processdata"}
         THEN Call("set_watchdog", p, <<>>, Raise(Exc("AttributeError")))
         ELSE IF fprd(wkc_rd, wd_div_reg).st = "raise"
         THEN Call("set_watchdog", p, <<"ecx_FPRD">>, fprd(wkc_rd, wd_div_reg))
         ELSE IF wd_time_reg(wd_time_ms, wd_div_reg) > 65535
         THEN Call("set_watchdog", p, <<"ecx_FPRD">>, Raise(Exc("AttributeError")))
         ELSE Call("set_watchdog", p, <<"ecx_FPRD", "ecx_FPWR">>, fpwr(wkc_wr))
    /\ UNCHANGED <<context_initialized, slaves, ec_slavecount, ec_slave, cd,
                   emcy_callbacks, elist, EOEhook,
                   timeouts, ec_group, eoe_callback, eoe_rx_info, fed, assigned, od, with_block>>

NextWd ==
    \/ \E r \in {0, 1} : Open(r)
    \/ Close
    \/ \E n \in FoundCounts, st \in {EC_STATE_INIT, EC_STATE_PRE_OP} : ConfigInit(n, st)
    \/ \E p \in Positions, v \in {EC_STATE_INIT, EC_STATE_OPERATIONAL} : SetState(p, v)
    \/ \E p \in Positions, mailbox \in {"out", "in", "both"},
          wkc1 \in {0, 1}, wkc2 \in {0, 1} :
            AmendMbx(p, mailbox, 4352, 256, wkc1, wkc2)
    \/ \E p \in Positions, t \in {"pdi", "processdata", "sm"}, div \in {0, 2498},
          wkc_rd \in {0, 1}, wkc_wr \in {0, 1} :
            SetWatchdog(p, t, 100, wkc_rd, div, wkc_wr)

SpecWd == Init /\ [][NextWd]_vars

\* C2: amend_mbx and set_watchdog called on a slave that is not in the Init
\* state raise an error and perform no register write.
C2_RefusedOutsideInit ==
    (/\ last.op \in {"amend_mbx", "set_watchdog"}
     /\ last.init
     /\ ec_slave[last.slave].state # EC_STATE_INIT)
        => (last.outcome.st = "raise" /\ last.lowcalls = <<>>)

-----------------------------------------------------------------------------
(* Configuration callbacks and mapping *)

\* CdefSlave._set_PO2SOconfig (config_func): stores the callable in the handle's
\* callback data, points the slave's user pointer at it and installs the legacy
\* hook, or removes the hook when the value is None.
SetConfigFunc(p, value) ==
    /\ p \in Handles
    /\ cd' = [cd EXCEPT ![p].func = value]
    /\ ec_slave' = [ec_slave EXCEPT
                       ![p].user = "_cd",
                       ![p].PO2SOconfig = IF value = "None" THEN "NULL" ELSE "_xPO2SOconfig"]
    /\ assigned' = [assigned EXCEPT ![p] = [prop |-> "config_func", value |-> value]]
    /\ last' = Call("config_func", p, <<>>, Return(NoneObj))
    /\ UNCHANGED <<context_initialized, slaves, ec_slavecount, emcy_callbacks,
                   elist, EOEhook,
                   timeouts, ec_group, eoe_callback, eoe_rx_info, fed, od, with_block>>

\* CdefSlave._set_PO2SOconfigEx (setup_func): the same with the successor hook.
SetSetupFunc(p, value) ==
    /\ p \in Handles
    /\ cd' = [cd EXCEPT ![p].func = value]
    /\ ec_slave' = [ec_slave EXCEPT
                       ![p].user = "_cd",
                       ![p].PO2SOconfig = IF value = "None" THEN "NULL" ELSE "_xPO2SOconfigEx"]
    /\ assigned' = [assigned EXCEPT ![p] = [prop |-> "setup_func", value |-> value]]
    /\ last' = Call("setup_func", p, <<>>, Return(NoneObj))
    /\ UNCHANGED <<context_initialized, slaves, ec_slavecount, emcy_callbacks,
                   elist, EOEhook,
                   timeouts, ec_group, eoe_callback, eoe_rx_info, fed, od, with_block>>

\* What sys.exc_info() holds for an exception the callback of slave `slave` raised.
ExcInfo(slave) == [kind |-> "CallbackException", slave |-> slave]

\* _xPO2SOconfig / _xPO2SOconfigEx on callback data c: the flag is cleared, the
\* callable is called, and when it raises the flag is set and the exception kept.
xPO2SOconfig(c, slave, raises) ==
    IF raises
    THEN [c EXCEPT !.exc_raised = "True", !.exc_info = ExcInfo(slave)]
    ELSE [c EXCEPT !.exc_raised = "False"]

\* The slaves whose hook the engine's mapping call invokes: those with a hook.
Hooked == {p \in Positions : p <= ec_slavecount /\ ec_slave[p].PO2SOconfig # "NULL"}

HookCallsAlwaysIndex ==
    [p \in Hooked |-> [func |-> cd[p].func, arg |-> IntObj(p - 1)]]

\* The argument each hook passes to the callable: the 0-based index (legacy) or
\* the handle (successor).
HookCalls ==
    [p \in Hooked |->
        IF ec_slave[p].PO2SOconfig = "_xPO2SOconfig"
        THEN [func |-> cd[p].func, arg |-> IntObj(p - 1)]
        ELSE [func |-> cd[p].func, arg |-> [kind |-> "CdefSlave", pos |-> p]]]

\* The callback data of every handle after the engine's mapping call, in which
\* the callbacks of `raisers` raised.
CdAfterMapping(raisers) ==
    [p \in Positions |->
        IF p \in Hooked THEN xPO2SOconfig(cd[p], p, p \in raisers) ELSE cd[p]]

\* CdefMaster._collect_mailbox_errors: one exception per queued record, in queue
\* order; the queue is left empty.
CollectMailboxErrors(q) ==
    [i \in 1..Len(q) |->
        CASE q[i].Etype = EC_ERR_TYPE_SDO_ERROR ->
                SdoError(q[i].Slave, q[i].Index, q[i].SubIdx, q[i].AbortCode)
          [] q[i].Etype = EC_ERR_TYPE_MBX_ERROR ->
                MailboxError(q[i].Slave, q[i].ErrorCode)
          [] q[i].Etype = EC_ERR_TYPE_PACKET_ERROR ->
                PacketError(q[i].Slave, q[i].ErrorCode)
          [] OTHER -> Exc("Exception")]

\* The handles of `items`, in list order, whose callback data has the flag set.
RaisedIn(items, cdn) == SelectSeq(items, LAMBDA h : cdn[h.pos].exc_raised = "True")

\* config_map after the engine call returned ret_val: cdn is the callback data
\* and q the error queue at that point.  Answers the outcome and the queue left.
MapOutcomeErrorsFirst(sl, cdn, q, ret_val) ==
    IF sl.none
    THEN [outcome |-> Raise(Exc("TypeError")), elist |-> q]
    ELSE IF Len(q) > 0
    THEN [outcome |-> Raise(ConfigMapError(CollectMailboxErrors(q))), elist |-> <<>>]
    ELSE IF RaisedIn(sl.items, cdn) # <<>>
    THEN [outcome |-> Raise(cdn[Head(RaisedIn(sl.items, cdn)).pos].exc_info), elist |-> q]
    ELSE [outcome |-> Return(IntObj(ret_val)), elist |-> <<>>]

MapOutcome(sl, cdn, q, ret_val) ==
    IF sl.none
    THEN [outcome |-> Raise(Exc("TypeError")), elist |-> q]
    ELSE IF RaisedIn(sl.items, cdn) # <<>>
    THEN [outcome |-> Raise(cdn[Head(RaisedIn(sl.items, cdn)).pos].exc_info), elist |-> q]
    ELSE IF Len(CollectMailboxErrors(q)) > 0
    THEN [outcome |-> Raise(ConfigMapError(CollectMailboxErrors(q))), elist |-> <<>>]
    ELSE [outcome |-> Return(IntObj(ret_val)), elist |-> <<>>]

\* config_map / config_overlap_map: the context check, the engine's mapping call
\* `lowcall` (which invokes the hooks, queues the records `queued` and answers
\* ret_val and leaves `group` in _ec_group[0]), then the callback exceptions,
\* then the collected errors.
Mapping(op, lowcall, raisers, queued, ret_val, group) ==
    IF ~context_initialized
    THEN /\ last' = Call(op, 0, <<>>, Raise(NetworkInterfaceNotOpenError))
         /\ UNCHANGED <<context_initialized, slaves, ec_slavecount, ec_slave, cd,
                        emcy_callbacks, elist, EOEhook,
                        timeouts, ec_group, eoe_callback, eoe_rx_info, fed, assigned, od, with_block>>
    ELSE LET cdn == CdAfterMapping(raisers)
             res == MapOutcome(slaves, cdn, elist \o queued, ret_val)
         IN  /\ cd' = cdn
             /\ elist' = res.elist
             /\ ec_group' = group
             /\ last' = [Call(op, 0, <<lowcall>>, res.outcome) EXCEPT
                            !.result = ret_val, !.pending = elist, !.queued = queued,
                            !.raisers = raisers,
                            !.dispatched = [i \in 1..Cardinality(Hooked) |->
                                HookCalls[CHOOSE p \in Hooked :
                                    Cardinality({r \in Hooked : r < p}) = i - 1]]]
             /\ UNCHANGED <<context_initialized, slaves, ec_slavecount, ec_slave,
                            emcy_callbacks, EOEhook,
                            timeouts, eoe_callback, eoe_rx_info, fed, assigned, od, with_block>>

ConfigMap(raisers, queued, ret_val, group) ==
    Mapping("config_map", "ecx_config_map_group", raisers, queued, ret_val, group)

ConfigOverlapMap(raisers, queued, ret_val, group) ==
    Mapping("config_overlap_map", "ecx_config_overlap_map_group", raisers, queued, ret_val,
            group)

\* The working counters the engine leaves in group 0 when every slave found
\* has inputs and outputs.
GroupOfAll == [outputsWKC |-> ec_slavecount, inputsWKC |-> ec_slavecount]

\* All sequences over S of length at most n.
SeqsUpTo(S, n) == UNION {[1..k -> S] : k \in 0..n}

\* The records the engine may still queue during one call.
Room == IF Len(elist) < MaxQueue THEN MaxQueue - Len(elist) ELSE 0

\* The records the mapping of the modelled bus may queue: an SDO abort of the
\* first slave, an emergency of the second, each only when the slave was found.
MapErrs ==
    {r \in {ErrRec(1, EC_ERR_TYPE_SDO_ERROR), ErrRec(2, EC_ERR_TYPE_EMERGENCY)} :
        r.Slave <= ec_slavecount}

NextMap ==
    \/ \E r \in {0, 1} : Open(r)
    \/ Close
    \/ \E n \in FoundCounts : ConfigInit(n, EC_STATE_PRE_OP)
    \/ \E p \in Positions, v \in {"None", "f"} : SetConfigFunc(p, v)
    \/ \E p \in Positions, v \in {"None", "f"} : SetSetupFunc(p, v)
    \/ \E raisers \in SUBSET Hooked, queued \in SeqsUpTo(MapErrs, Room) :
          ConfigMap(raisers, queued, 8, GroupOfAll)
    \/ \E raisers \in SUBSET Hooked, queued \in SeqsUpTo(MapErrs, Room) :
          ConfigOverlapMap(raisers, queued, 8, GroupOfAll)

SpecMap == Init /\ [][NextMap]_vars

\* The last call is a mapping call, after an enumeration, that went past the
\* context check.
Mapped == last.op \in {"config_map", "config_overlap_map"} /\ last.init /\ ~slaves.none

\* C3: a mapping call raises a configuration-callback exception if and only if
\* some callback invoked during that same call raised, and the exception is one
\* captured during that call.
C3_CallbackExceptionOfThisCall ==
    Mapped =>
        /\ (last.outcome.exc.kind = "CallbackException") <=> (last.raisers # {})
        /\ (last.outcome.exc.kind = "CallbackException")
              => (last.outcome.exc.slave \in last.raisers)

HasSlavePos(e) == e.kind \in {"SdoError", "MailboxError", "PacketError", "Emergency"}

\* C5: when no callback raised and k >= 1 records were queued during mapping,
\* the call raises one ConfigMapError with k entries, one per record in queue
\* order, each carrying the record's slave position, and the queue is empty
\* afterwards; when k = 0 it returns the IO map size.
C5_AggregatedMapErrors ==
    (Mapped /\ last.raisers = {}) =>
        IF Len(last.queued) >= 1
        THEN /\ last.outcome.exc.kind = "ConfigMapError"
             /\ Len(last.outcome.exc.error_list) = Len(last.queued)
             /\ \A i \in 1..Len(last.queued) :
                   /\ HasSlavePos(last.outcome.exc.error_list[i])
                   /\ last.outcome.exc.error_list[i].slave_pos = last.queued[i].Slave
             /\ elist = <<>>
        ELSE last.outcome = Return(IntObj(last.result))

-----------------------------------------------------------------------------
(* Mailbox exchanges: the error drain, emergencies, SDO read and write *)

\* CdefSlave.add_emergency_callback
AddEmergencyCallback(p, callback) ==
    /\ p \in Handles
    /\ Len(emcy_callbacks[p]) < MaxSubs
    /\ IF ~context_initialized
       THEN /\ last' = Call("add_emergency_callback", p, <<>>,
                            Raise(NetworkInterfaceNotOpenError))
            /\ UNCHANGED emcy_callbacks
       ELSE /\ emcy_callbacks' = [emcy_callbacks EXCEPT ![p] = Append(@, callback)]
            /\ last' = Call("add_emergency_callback", p, <<>>, Return(NoneObj))
    /\ UNCHANGED <<context_initialized, slaves, ec_slavecount, ec_slave, cd, elist,
                   EOEhook,
                   timeouts, ec_group, eoe_callback, eoe_rx_info, fed, assigned, od, with_block>>

\* The Emergency built from an emergency record.
EmergencyOf(err) ==
    Emergency(err.Slave, err.ErrorCode, err.ErrorReg, err.b1, err.w1, err.w2)

\* _on_emergency that stops after the first subscriber.
OnEmergencyFirstOnly(subs, err, bad, k) ==
    [dispatched |-> <<[cb |-> subs[1], msg |-> EmergencyOf(err), k |-> k]>>,
     raised |-> bad = 1]

\* CdefSlave._on_emergency: every callback of `subs` is called with the message,
\* in list order; the callback in place `bad` (0: none) raises, which ends the
\* loop.  k numbers the emergency within the call.
OnEmergency(subs, err, bad, k) ==
    LET n == IF bad \in 1..Len(subs) THEN bad ELSE Len(subs)
    IN  [dispatched |-> [i \in 1..n |-> [cb |-> subs[i], msg |-> EmergencyOf(err), k |-> k]],
         raised |-> bad \in 1..Len(subs)]

\* CdefSlave._raise_exception
RaiseException(err) ==
    CASE err.Etype = EC_ERR_TYPE_SDO_ERROR ->
            SdoError(err.Slave, err.Index, err.SubIdx, err.AbortCode)
      [] err.Etype = EC_ERR_TYPE_EMERGENCY -> EmergencyOf(err)
      [] err.Etype = EC_ERR_TYPE_MBX_ERROR -> MailboxError(err.Slave, err.ErrorCode)
      [] err.Etype = EC_ERR_TYPE_PACKET_ERROR -> PacketError(err.Slave, err.ErrorCode)
      [] OTHER -> Exc("Exception")

\* One round of the drain loop on record err; what is left of the call when the
\* round raised.  asserted: the loop asserts err.Slave == self._pos first.
DrainStep(err, pos, subs, asserted, bad, k) ==
    IF asserted /\ err.Slave # pos
    THEN [dispatched |-> <<>>, exc |-> Exc("AssertionError")]
    ELSE IF err.Etype = EC_ERR_TYPE_EMERGENCY /\ Len(subs) > 0
    THEN [dispatched |-> OnEmergency(subs, err, bad, k).dispatched,
          exc |-> IF OnEmergency(subs, err, bad, k).raised
                  THEN Exc("SubscriberException") ELSE NoneObj]
    ELSE [dispatched |-> <<>>, exc |-> RaiseException(err)]

\* `while ecx_poperror(...)`: pops the records of q one by one until one round
\* raises or the queue is empty.  raiseAt = <<k, j>>: subscriber j raises on the
\* k-th emergency dispatched.  Answers the records left, the dispatches made and
\* the exception raised (None: the loop ran to the end).
RECURSIVE DrainAll(_, _, _, _, _, _)
DrainAll(q, pos, subs, asserted, raiseAt, k) ==
    IF q = <<>>
    THEN [left |-> <<>>, dispatched |-> <<>>, exc |-> NoneObj]
    ELSE LET step == DrainStep(Head(q), pos, subs, asserted,
                               IF raiseAt[1] = k THEN raiseAt[2] ELSE 0, k)
         IN  IF step.exc # NoneObj
             THEN [left |-> Tail(q), dispatched |-> step.dispatched, exc |-> step.exc]
             ELSE LET rest == DrainAll(Tail(q), pos, subs, asserted, raiseAt,
                                       IF step.dispatched # <<>> THEN k + 1 ELSE k)
                  IN  [left |-> rest.left,
                       dispatched |-> step.dispatched \o rest.dispatched,
                       exc |-> rest.exc]

\* `if ecx_poperror(...)`: pops at most one record.
DrainOne(q, pos, subs, asserted, raiseAt, k) ==
    IF q = <<>>
    THEN [left |-> <<>>, dispatched |-> <<>>, exc |-> NoneObj]
    ELSE LET step == DrainStep(Head(q), pos, subs, asserted,
                               IF raiseAt[1] = k THEN raiseAt[2] ELSE 0, k)
         IN  [left |-> Tail(q), dispatched |-> step.dispatched, exc |-> step.exc]

\* The drain of sdo_read and sdo_write.
SdoDrain(q, pos, subs, asserted, raiseAt) == DrainAll(q, pos, subs, asserted, raiseAt, 1)

\* A working counter check that lets zero pass.
WkcCheckOffByOne(result, value) ==
    IF ~(result >= 0) THEN Raise(WkcError(result)) ELSE Return(value)

\* The end of sdo_read / sdo_write once the drain raised nothing: WkcError unless
\* the working counter is positive, else the value.
WkcCheck(result, value) ==
    IF ~(result > 0) THEN Raise(WkcError(result)) ELSE Return(value)

\* A timeout fixed when the handle was made.
SdoTimeoutAtCreation(op) == DEFAULT_SDO_TIMEOUT

\* self._the_masters_settings.sdo_read_timeout[0] / sdo_write_timeout[0]: the
\* handle points to the master's settings, which point to the master's attributes.
SdoTimeout(op) == IF op = "sdo_read" THEN sdo_read_timeout ELSE sdo_write_timeout

\* How many times sdo_read frees the buffer it allocated for an explicit size
\* (size 0: the fixed buffer, nothing allocated) when the drain ended with exc:
\* once before _raise_exception, once before WkcError, once in the finally
\* clause of the return; not on the assertion and not when a subscriber raised.
BufferFrees(size, exc) ==
    IF size = 0 THEN 0
    ELSE IF exc = NoneObj THEN 1
    ELSE IF exc.kind \in {"AssertionError", "SubscriberException"} THEN 0
    ELSE 1

\* sdo_read / sdo_write after the context check: the engine call `lowcall`
\* answers `result` and queues `queued`; then the drain, then the working counter.
\* size: the size of the buffer allocated for the call, 0 when there is none.
SdoExchange(op, lowcall, p, asserted, result, queued, raiseAt, value, size) ==
    LET d == SdoDrain(elist \o queued, p, emcy_callbacks[p], asserted, raiseAt)
    IN  /\ elist' = d.left
        /\ last' = [Call(op, p, <<lowcall>>,
                         IF d.exc # NoneObj THEN Raise(d.exc) ELSE WkcCheck(result, value))
                    EXCEPT !.result = result, !.pending = elist, !.queued = queued,
                           !.dispatched = d.dispatched, !.timeout = SdoTimeout(op),
                           !.size = size, !.frees = BufferFrees(size, d.exc)]

\* CdefSlave.sdo_read with buffer size `size` (0: the static buffer); the engine
\* leaves size_inout, at most the buffer's size, as the length of the data.
SdoRead(p, size, size_inout, result, queued, raiseAt) ==
    /\ p \in Handles
    /\ size_inout <= (IF size = 0 THEN STATIC_SDO_READ_BUFFER_SIZE ELSE size)
    /\ IF ~context_initialized
       THEN /\ last' = Call("sdo_read", p, <<>>, Raise(NetworkInterfaceNotOpenError))
            /\ UNCHANGED elist
       ELSE SdoExchange("sdo_read", "ecx_SDOread", p, TRUE, result, queued, raiseAt,
                        BytesObj(size_inout), size)
    /\ UNCHANGED <<context_initialized, slaves, ec_slavecount, ec_slave, cd,
                   emcy_callbacks, EOEhook,
                   timeouts, ec_group, eoe_callback, eoe_rx_info, fed, assigned, od, with_block>>

\* CdefSlave.sdo_write
SdoWrite(p, result, queued, raiseAt) ==
    /\ p \in Handles
    /\ IF ~context_initialized
       THEN /\ last' = Call("sdo_write", p, <<>>, Raise(NetworkInterfaceNotOpenError))
            /\ UNCHANGED elist
       ELSE SdoExchange("sdo_write", "ecx_SDOwrite", p, FALSE, result, queued, raiseAt,
                        NoneObj, 0)
    /\ UNCHANGED <<context_initialized, slaves, ec_slavecount, ec_slave, cd,
                   emcy_callbacks, EOEhook,
                   timeouts, ec_group, eoe_callback, eoe_rx_info, fed, assigned, od, with_block>>

\* CdefSlave.mbx_receive: one ecx_mbxreceive, one record popped at most, the
\* working counter returned as it is.
MbxReceive(p, wkt, queued, raiseAt) ==
    /\ p \in Handles
    /\ IF ~context_initialized
       THEN /\ last' = Call("mbx_receive", p, <<>>, Raise(NetworkInterfaceNotOpenError))
            /\ UNCHANGED elist
       ELSE LET d == DrainOne(elist \o queued, p, emcy_callbacks[p], FALSE, raiseAt, 1)
            IN  /\ elist' = d.left
                /\ last' = [Call("mbx_receive", p, <<"ecx_mbxreceive">>,
                                 IF d.exc # NoneObj THEN Raise(d.exc)
                                 ELSE Return(IntObj(wkt)))
                            EXCEPT !.result = wkt, !.pending = elist, !.queued = queued,
                                   !.dispatched = d.dispatched]
    /\ UNCHANGED <<context_initialized, slaves, ec_slavecount, ec_slave, cd,
                   emcy_callbacks, EOEhook,
                   timeouts, ec_group, eoe_callback, eoe_rx_info, fed, assigned, od, with_block>>

\* The records a mailbox exchange with slave p may queue: they name slave p.
MbxErrs(p) == {ErrRec(p, EC_ERR_TYPE_EMERGENCY), ErrRec(p, EC_ERR_TYPE_SDO_ERROR)}

\* What one exchange with slave p may queue, n records at most: the emergencies
\* that arrive while it waits, and last the abort that ends it.
MbxQueues(p, n) ==
    {q \in SeqsUpTo(MbxErrs(p), n) :
        \A i \in 1..Len(q) : q[i].Etype = EC_ERR_TYPE_SDO_ERROR => i = Len(q)}

\* The emergencies among the records of q.
EmergenciesIn(q) == SelectSeq(q, LAMBDA r : r.Etype = EC_ERR_TYPE_EMERGENCY)

\* Which subscriber of p may raise, and on which emergency of the queue q:
\* <<k, j>> for subscriber j, the first or the last registered, on the k-th
\* emergency, the first or the last of the queue; <<0, 0>> for none.
RaiseChoices(p, q) ==
    {<<0, 0>>} \cup
    ({k \in 1..Len(EmergenciesIn(q)) : k = 1 \/ k = Len(EmergenciesIn(q))}
        \X {j \in 1..Len(emcy_callbacks[p]) : j = 1 \/ j = Len(emcy_callbacks[p])})

\* The slaves that get subscribers: the first one, the other stands for a slave
\* without; a call reads no subscriber list but its own slave's.
Subscribed == {p \in Positions : p = 1}

\* The working counters the engine may answer.
Results == {-1, 0, 1}

\* The slave counts ecx_config_init answers on the bus of the mailbox
\* exchanges: both slaves, or none when the bus does not answer.
BothOrNone == {0, Cardinality(Positions)}

NextMbx ==
    \/ \E r \in {0, 1} : Open(r)
    \/ Close
    \/ \E n \in BothOrNone : ConfigInit(n, EC_STATE_PRE_OP)
    \/ \E p \in Subscribed : AddEmergencyCallback(p, Len(emcy_callbacks[p]) + 1)
    \/ \E p \in Positions, result \in Results : \E queued \in MbxQueues(p, Room) :
          \E raiseAt \in RaiseChoices(p, elist \o queued) :
              SdoRead(p, 0, 4, result, queued, raiseAt)
    \/ \E p \in Positions, result \in Results : \E queued \in MbxQueues(p, Room) :
          \E raiseAt \in RaiseChoices(p, elist \o queued) :
              SdoWrite(p, result, queued, raiseAt)
    \/ \E p \in Positions, wkt \in {0, 1} : \E queued \in MbxQueues(p, Room) :
          \E raiseAt \in RaiseChoices(p, elist \o queued) :
              MbxReceive(p, wkt, queued, raiseAt)

SpecMbx == Init /\ [][NextMbx]_vars

\* The last call was an sdo_read or sdo_write that reached the engine.
SdoCall == last.op \in {"sdo_read", "sdo_write"} /\ last.init

\* The last call was a mailbox exchange that reached the engine.
MbxCall == last.op \in {"sdo_read", "sdo_write", "mbx_receive"} /\ last.init

\* The records the last call had before it, oldest first, and those it popped.
Records == last.pending \o last.queued
Popped == SubSeq(Records, 1, Len(Records) - Len(elist))

\* C6 as stated: whenever sdo_read or sdo_write has finished, by returning or by
\* raising, the error queue is empty.
C6_QueueEmptyWhenFinished == SdoCall => elist = <<>>

\* The popped emergency records, oldest first.
PoppedEmergencies == SelectSeq(Popped, LAMBDA r : r.Etype = EC_ERR_TYPE_EMERGENCY)

\* sdo_read stopped on the record for naming another slave.
Rejected(r) == last.op = "sdo_read" /\ r.Slave # last.slave

\* C7: an Emergency record popped by sdo_read, sdo_write or mbx_receive is never
\* both raised and dispatched.  With a subscriber on the slave no Emergency is
\* raised and each popped emergency record is dispatched; with none nothing is
\* dispatched and the popped emergency record is raised as Emergency.
C7_EmergencyRaisedOrDispatched ==
    MbxCall =>
        /\ ~(last.outcome.exc.kind = "Emergency" /\ last.dispatched # <<>>)
        /\ emcy_callbacks[last.slave] # <<>> =>
              /\ last.outcome.exc.kind # "Emergency"
              /\ \A k \in 1..Len(PoppedEmergencies) :
                    \E i \in 1..Len(last.dispatched) :
                        last.dispatched[i].msg = EmergencyOf(PoppedEmergencies[k])
        /\ emcy_callbacks[last.slave] = <<>> =>
              /\ last.dispatched = <<>>
              /\ \A k \in 1..Len(PoppedEmergencies) :
                    last.outcome = Raise(EmergencyOf(PoppedEmergencies[k]))

\* An sdo call on a slave with subscribers whose only queued record is one
\* emergency, and whose working counter is positive.
OneEmergency ==
    /\ SdoCall
    /\ emcy_callbacks[last.slave] # <<>>
    /\ last.pending = <<>>
    /\ Len(last.queued) = 1
    /\ last.queued[1].Etype = EC_ERR_TYPE_EMERGENCY
    /\ last.result > 0

\* What subscribers 1..n of the slave get for the one emergency, in order.
Delivery(n) ==
    [i \in 1..n |-> [cb |-> emcy_callbacks[last.slave][i],
                     msg |-> Emergency(last.queued[1].Slave, last.queued[1].ErrorCode,
                                       last.queued[1].ErrorReg, last.queued[1].b1,
                                       last.queued[1].w1, last.queued[1].w2),
                     k |-> 1]]

Raising(r) ==
    \/ Rejected(r)
    \/ ~(r.Etype = EC_ERR_TYPE_EMERGENCY /\ emcy_callbacks[last.slave] # <<>>)

\* The drain of the last call raised nothing.
DrainedClean ==
    /\ \A i \in 1..Len(Records) : ~Raising(Records[i])
    /\ last.outcome.exc.kind # "SubscriberException"

\* C9: when the drain of sdo_read or sdo_write raises nothing and the working
\* counter is zero or negative the call raises WkcError carrying that counter;
\* with a positive counter it returns; an error raised from the queue takes
\* precedence over WkcError.
C9_WkcErrorUnlessPositive ==
    SdoCall =>
        /\ (DrainedClean /\ last.result <= 0) => last.outcome = Raise(WkcError(last.result))
        /\ (DrainedClean /\ last.result > 0) => last.outcome.st = "return"
        /\ ~DrainedClean =>
              /\ last.outcome.st = "raise"
              /\ last.outcome.exc.kind # "WkcError"

\* An sdo call dispatched an emergency and then raised WkcError for a counter
\* of zero.
C9_Witness ==
    /\ SdoCall
    /\ last.result = 0
    /\ last.dispatched # <<>>
    /\ last.outcome = Raise(WkcError(0))

-----------------------------------------------------------------------------
(* Mailbox reads: FoE read and EoE receive beside SDO read *)

\* `if ecx_poperror(...)` of foe_read and eoe_recv_data: the oldest record, if
\* there is one, is popped and raised, after the assertion that it names this
\* slave; an emergency is raised as well, subscribers or not.
PopAndRaiseDrained(q, pos) ==
    IF q = <<>>
    THEN [left |-> <<>>, exc |-> NoneObj]
    ELSE [left |-> <<>>,
          exc |-> IF Head(q).Slave # pos THEN Exc("AssertionError")
                  ELSE RaiseException(Head(q))]

PopAndRaise(q, pos) ==
    IF q = <<>>
    THEN [left |-> <<>>, exc |-> NoneObj]
    ELSE [left |-> Tail(q),
          exc |-> IF Head(q).Slave # pos THEN Exc("AssertionError")
                  ELSE RaiseException(Head(q))]

\* The timeout foe_read and foe_write hand to the engine: their own `timeout`
\* argument, 200000 us when the caller gives none.
FoeTimeout(timeout) == timeout

\* CdefSlave.foe_read into a buffer of `size` bytes: ecx_FOEread answers
\* `result`, leaves size_inout and queues `queued`; with no record to raise the
\* first size_inout bytes of the buffer are returned, whatever the result.
FoeRead(p, size, size_inout, result, queued, timeout) ==
    /\ p \in Handles
    /\ size_inout <= size
    /\ IF ~context_initialized
       THEN /\ last' = Call("foe_read", p, <<>>, Raise(NetworkInterfaceNotOpenError))
            /\ UNCHANGED elist
       ELSE LET d == PopAndRaise(elist \o queued, p)
            IN  /\ elist' = d.left
                /\ last' = [Call("foe_read", p, <<"ecx_FOEread">>,
                                 IF d.exc # NoneObj THEN Raise(d.exc)
                                 ELSE Return(BytesObj(size_inout)))
                            EXCEPT !.result = result, !.pending = elist, !.queued = queued,
                                   !.given = timeout, !.timeout = FoeTimeout(timeout)]
    /\ UNCHANGED <<context_initialized, slaves, ec_slavecount, ec_slave, cd,
                   emcy_callbacks, EOEhook,
                   timeouts, ec_group, eoe_callback, eoe_rx_info, fed, assigned, od, with_block>>

\* CdefSlave.foe_write of `size` bytes of data: ecx_FOEwrite answers `result`
\* and queues `queued`; one record is popped and raised, otherwise the result
\* is returned.
FoeWrite(p, size, result, queued, timeout) ==
    /\ p \in Handles
    /\ IF ~context_initialized
       THEN /\ last' = Call("foe_write", p, <<>>, Raise(NetworkInterfaceNotOpenError))
            /\ UNCHANGED elist
       ELSE LET d == PopAndRaise(elist \o queued, p)
            IN  /\ elist' = d.left
                /\ last' = [Call("foe_write", p, <<"ecx_FOEwrite">>,
                                 IF d.exc # NoneObj THEN Raise(d.exc)
                                 ELSE Return(IntObj(result)))
                            EXCEPT !.result = result, !.pending = elist, !.queued = queued,
                                   !.size = size,
                                   !.given = timeout, !.timeout = FoeTimeout(timeout)]
    /\ UNCHANGED <<context_initialized, slaves, ec_slavecount, ec_slave, cd,
                   emcy_callbacks, EOEhook,
                   timeouts, ec_group, eoe_callback, eoe_rx_info, fed, assigned, od, with_block>>

\* The end of eoe_recv_data when no record was raised.
EoeResult(pos, result, size_inout) ==
    IF result > 0 THEN Return(BytesObj(size_inout))
    ELSE IF result = -EC_ERR_TYPE_EOE_INVALID_RX_DATA THEN Raise(Exc("EoeInvalidRxDataError"))
    ELSE IF result = -EC_ERR_TYPE_PACKET_ERROR THEN Raise(PacketError(pos, 1))
    ELSE Return(NoneObj)

\* CdefSlave.eoe_recv_data with a buffer of `mtu` bytes.
EoeRecvData(p, mtu, size_inout, result, queued) ==
    /\ p \in Handles
    /\ size_inout <= mtu
    /\ IF ~context_initialized
       THEN /\ last' = Call("eoe_recv_data", p, <<>>, Raise(NetworkInterfaceNotOpenError))
            /\ UNCHANGED elist
       ELSE IF EOEhook # "NULL"
       THEN /\ last' = Call("eoe_recv_data", p, <<>>, Raise(Exc("AssertionError")))
            /\ UNCHANGED elist
       ELSE LET d == PopAndRaise(elist \o queued, p)
            IN  /\ elist' = d.left
                /\ last' = [Call("eoe_recv_data", p, <<"ecx_EOErecv">>,
                                 IF d.exc # NoneObj THEN Raise(d.exc)
                                 ELSE EoeResult(p, result, size_inout))
                            EXCEPT !.result = result, !.pending = elist, !.queued = queued]
    /\ UNCHANGED <<context_initialized, slaves, ec_slavecount, ec_slave, cd,
                   emcy_callbacks, EOEhook,
                   timeouts, ec_group, eoe_callback, eoe_rx_info, fed, assigned, od, with_block>>

\* The records a read on slave p may queue.
ReadErrs(p) == {ErrRec(p, EC_ERR_TYPE_FOE_ERROR), ErrRec(p, EC_ERR_TYPE_PACKET_ERROR)}

NextRead ==
    \/ \E r \in {0, 1} : Open(r)
    \/ Close
    \/ \E n \in FoundCounts : ConfigInit(n, EC_STATE_PRE_OP)
    \/ \E cb \in {"None", "cb"} : SetEoeCallback(cb)
    \/ \E p \in Positions, size \in {0, 8}, result \in Results :
          \E queued \in SeqsUpTo(ReadErrs(p), Room) :
              SdoRead(p, size, 4, result, queued, <<0, 0>>)
    \/ \E p \in Positions, size_inout \in {0, 8}, result \in {-EC_ERR_TYPE_FOE_ERROR, 0, 1} :
          \E queued \in SeqsUpTo(ReadErrs(p), Room) :
              FoeRead(p, 8, size_inout, result, queued, DEFAULT_FOE_TIMEOUT)
    \/ \E p \in Positions, result \in {0, 1} :
          \E queued \in SeqsUpTo(ReadErrs(p), Room) :
              FoeWrite(p, 8, result, queued, DEFAULT_FOE_TIMEOUT)
    \/ \E p \in Positions, size_inout \in {0, 64},
          result \in {-EC_ERR_TYPE_EOE_INVALID_RX_DATA, -EC_ERR_TYPE_PACKET_ERROR, 0, 1} :
          \E queued \in SeqsUpTo(ReadErrs(p), Room) :
              EoeRecvData(p, 1500, size_inout, result, queued)

SpecRead == Init /\ [][NextRead]_vars

\* The last call was a mailbox read that reached the engine.
ReadCall ==
    /\ last.op \in {"sdo_read", "foe_read", "eoe_recv_data"}
    /\ last.init
    /\ last.lowcalls # <<>>

\* C10: a mailbox read (sdo_read, foe_read, eoe_recv_data) whose low-level
\* transaction reported a result that is not positive never returns bytes: it
\* raises, or, for eoe_recv_data only, returns None.
C10_NoDataWithoutPositiveResult ==
    (ReadCall /\ last.result <= 0) =>
        \/ last.outcome.st = "raise"
        \/ last.op = "eoe_recv_data" /\ last.outcome = Return(NoneObj)

-----------------------------------------------------------------------------
(* The master's SDO timeouts *)

\* master.sdo_read_timeout = value (cdef public int: value is an int in range).
SetSdoReadTimeout(value) ==
    /\ sdo_read_timeout' = value
    /\ last' = Call("sdo_read_timeout", 0, <<>>, Return(NoneObj))
    /\ UNCHANGED <<context_initialized, slaves, ec_slavecount, ec_slave, cd,
                   emcy_callbacks, elist, EOEhook, sdo_write_timeout, ec_group,
                   eoe_callback, eoe_rx_info, fed, assigned, od, with_block>>

\* master.sdo_write_timeout = value
SetSdoWriteTimeout(value) ==
    /\ sdo_write_timeout' = value
    /\ last' = Call("sdo_write_timeout", 0, <<>>, Return(NoneObj))
    /\ UNCHANGED <<context_initialized, slaves, ec_slavecount, ec_slave, cd,
                   emcy_callbacks, elist, EOEhook, sdo_read_timeout, ec_group,
                   eoe_callback, eoe_rx_info, fed, assigned, od, with_block>>

\* The timeouts a caller assigns, in us.
TimeoutValues == {0, 1000, DEFAULT_SDO_TIMEOUT}

NextTimeout ==
    \/ \E r \in {0, 1} : Open(r)
    \/ Close
    \/ \E n \in FoundCounts : ConfigInit(n, EC_STATE_PRE_OP)
    \/ \E v \in TimeoutValues : SetSdoReadTimeout(v)
    \/ \E v \in TimeoutValues : SetSdoWriteTimeout(v)
    \/ \E p \in Positions, result \in {0, 1} : SdoRead(p, 0, 4, result, <<>>, <<0, 0>>)
    \/ \E p \in Positions, result \in {0, 1} : SdoWrite(p, result, <<>>, <<0, 0>>)

SpecTimeout == Init /\ [][NextTimeout]_vars

\* C11: whatever assignments to master.sdo_read_timeout / sdo_write_timeout and
\* SDO calls came before, the timeout an sdo_read (sdo_write) hands to the
\* low-level call is the master's sdo_read_timeout (sdo_write_timeout) as it is
\* at the call, i.e. the value assigned last.
C11_TimeoutReadAtCall ==
    /\ (last.op = "sdo_read" /\ last.lowcalls # <<>>) => last.timeout = sdo_read_timeout
    /\ (last.op = "sdo_write" /\ last.lowcalls # <<>>) => last.timeout = sdo_write_timeout

\* An sdo_read went out with a timeout assigned after the handle was made, while
\* the write timeout holds another value.
C11_Witness ==
    /\ last.op = "sdo_read"
    /\ last.lowcalls # <<>>
    /\ last.timeout = 1000
    /\ sdo_write_timeout = 0

-----------------------------------------------------------------------------
(* The list of handles, and close *)

\* C12: after any config_init calls, Master.slaves holds exactly the handles the
\* most recent config_init made: one per slave found, the handle at 0-based
\* index i with position i + 1 on slave-table entry i + 1, none when no slave
\* was found; no handle of an earlier enumeration is in the list.
C12_SlavesOfLatestEnumeration ==
    ~slaves.none =>
        /\ Len(slaves.items) = ec_slavecount
        /\ \A n \in 1..Len(slaves.items) :
              slaves.items[n] = [pos |-> n, ec_slave |-> n, latest |-> TRUE]
        /\ (last.op = "config_init" /\ last.init) =>
              Len(slaves.items) = (IF last.outcome.ret.v > 0 THEN last.outcome.ret.v ELSE 0)

\* A config_init found two slaves.
C12_Witness ==
    /\ last.op = "config_init"
    /\ last.init
    /\ Len(slaves.items) = 2

\* What close can change of the master.
MasterState ==
    <<context_initialized, slaves, ec_slavecount, ec_slave, cd, emcy_callbacks, elist,
      EOEhook, timeouts, ec_group, eoe_callback, eoe_rx_info>>

\* C13: close never raises and leaves the master not initialized, in whatever
\* state it is called; a close right after a close changes nothing.
C13_CloseIdempotent ==
    [][/\ last'.op = "close" =>
             /\ last'.outcome = Return(NoneObj)
             /\ ~context_initialized'
       /\ (last.op = "close" /\ last'.op = "close") => MasterState' = MasterState]_vars

\* A close on a master that was not initialized (closed before, or never opened).
C13_Witness ==
    /\ last.op = "close"
    /\ ~last.init
    /\ ~slaves.none

-----------------------------------------------------------------------------
(* The IO map and the expected working counter *)

ExpectedWkcInputsTwice ==
    ec_group.outputsWKC + (ec_group.inputsWKC * 2)

\* _get_expected_wkc: computed from group 0 at the access.
ExpectedWkc ==
    (ec_group.outputsWKC * 2) + ec_group.inputsWKC

\* master.expected_wkc
GetExpectedWkc ==
    /\ last' = Call("expected_wkc", 0, <<>>, Return(IntObj(ExpectedWkc)))
    /\ UNCHANGED <<context_initialized, slaves, ec_slavecount, ec_slave, cd,
                   emcy_callbacks, elist, EOEhook,
                   timeouts, ec_group, eoe_callback, eoe_rx_info, fed, assigned, od, with_block>>

\* The sizes the engine's mapping may answer: a small map, a map that fills
\* io_map to its last byte, and a map one byte larger than io_map.
IoMapSizes == {8, EC_IOMAPSIZE, EC_IOMAPSIZE + 1}

\* What the engine's mapping may leave in group 0: each slave found adds to the
\* output counter, to the input counter, to both or to none.
Groups ==
    [outputsWKC : 0..ec_slavecount, inputsWKC : 0..ec_slavecount]

NextIoMap ==
    \/ \E r \in {0, 1} : Open(r)
    \/ Close
    \/ \E n \in FoundCounts : ConfigInit(n, EC_STATE_PRE_OP)
    \/ \E size \in IoMapSizes, group \in Groups : ConfigMap({}, <<>>, size, group)
    \/ \E size \in IoMapSizes, group \in Groups : ConfigOverlapMap({}, <<>>, size, group)
    \/ GetExpectedWkc

SpecIoMap == Init /\ [][NextIoMap]_vars

\* C14: a mapping call never returns a size above the capacity of the IO map;
\* when the mapped size is above the capacity the call raises.
C14_NeverAboveCapacity ==
    (Mapped /\ last.lowcalls # <<>>) =>
        /\ last.outcome.st = "return" => last.outcome.ret.v <= EC_IOMAPSIZE
        /\ last.result > EC_IOMAPSIZE => last.outcome.st = "raise"

\* C16: what a read of master.expected_wkc returns is twice the output working
\* counter plus the input working counter of group 0 as the latest mapping
\* left them.
C16_ExpectedWkcOfCurrentGroup ==
    last.op = "expected_wkc" =>
        last.outcome = Return(IntObj(2 * ec_group.outputsWKC + ec_group.inputsWKC))

\* expected_wkc was read after a mapping that left two output counts and one
\* input count.
C16_Witness ==
    /\ last.op = "expected_wkc"
    /\ ec_group = [outputsWKC |-> 2, inputsWKC |-> 1]
    /\ last.outcome.ret.v = 5

-----------------------------------------------------------------------------
(* Process data: slave.input and slave.output *)

\* The largest bit length of one direction of a slave's process data.
MaxBits == 17

NumBytesAsCounted(bytes, bits) == bytes

\* num_bytes of _get_input / _get_output for the byte count and the bit length
\* the slave's entry holds.
NumBytes(bytes, bits) ==
    IF bytes = 0 /\ bits > 0 THEN 1 ELSE bytes

\* The sizes an entry of ec_slave may hold for one direction: bit lengths below
\* one byte come with a byte count of 0 (packed with the neighbours' bits), the
\* others with the bytes they fill.
ProcessDataSizes ==
    {[bytes |-> IF b < 8 THEN 0 ELSE (b + 7) \div 8, bits |-> b] : b \in 0..MaxBits}

\* CdefSlave._get_input / _get_output: a bytes object of num_bytes bytes, made
\* from the sizes `pd` the slave's entry holds; no check of the context.
GetProcessData(op, p, pd) ==
    /\ p \in Handles
    /\ last' = [Call(op, p, <<>>, Return(BytesObj(NumBytes(pd.bytes, pd.bits))))
                EXCEPT !.pd = pd]
    /\ UNCHANGED <<context_initialized, slaves, ec_slavecount, ec_slave, cd,
                   emcy_callbacks, elist, EOEhook,
                   timeouts, ec_group, eoe_callback, eoe_rx_info, fed, assigned, od, with_block>>

GetInput(p, pd) == GetProcessData("input", p, pd)

GetOutput(p, pd) == GetProcessData("output", p, pd)

NextPd ==
    \/ \E r \in {0, 1} : Open(r)
    \/ Close
    \/ \E n \in FoundCounts : ConfigInit(n, EC_STATE_PRE_OP)
    \/ \E p \in Positions, pd \in ProcessDataSizes : GetInput(p, pd)
    \/ \E p \in Positions, pd \in ProcessDataSizes : GetOutput(p, pd)

SpecPd == Init /\ [][NextPd]_vars

\* C15: the length of slave.input (slave.output) is the slave's input (output)
\* byte count, except that it is 1 when the byte count is 0 and the bit length
\* is above 0; so the length is 0 only if the bit length is 0 too.
C15_ProcessDataLength ==
    last.op \in {"input", "output"} =>
        /\ last.outcome.st = "return"
        /\ last.outcome.ret.kind = "bytes"
        /\ (last.pd.bytes = 0 /\ last.pd.bits > 0) => last.outcome.ret.len = 1
        /\ ~(last.pd.bytes = 0 /\ last.pd.bits > 0) => last.outcome.ret.len = last.pd.bytes
        /\ last.outcome.ret.len = 0 => last.pd.bits = 0

\* slave.input was read for a slave with 3 input bits and no whole input byte.
C15_Witness ==
    /\ last.op = "input"
    /\ last.pd = [bytes |-> 0, bits |-> 3]
    /\ last.outcome.ret.len = 1

-----------------------------------------------------------------------------
(* EEPROM write *)

EepromWriteOutcomeAtLeastTwo(size, result) ==
    IF size < 2
    THEN [lowcalls |-> <<>>, outcome |-> Raise(Exc("AttributeError"))]
    ELSE [lowcalls |-> <<"ecx_writeeeprom">>,
          outcome |-> IF ~(result > 0) THEN Raise(Exc("EepromError"))
                      ELSE Return(NoneObj)]

\* eeprom_write after the context check, for `size` bytes of data and an engine
\* that answers `result` when it is asked: the low-level calls made and the
\* outcome.
EepromWriteOutcome(size, result) ==
    IF ~(size = 2)
    THEN [lowcalls |-> <<>>, outcome |-> Raise(Exc("AttributeError"))]
    ELSE [lowcalls |-> <<"ecx_writeeeprom">>,
          outcome |-> IF ~(result > 0) THEN Raise(Exc("EepromError"))
                      ELSE Return(NoneObj)]

\* CdefSlave.eeprom_write: word_address and timeout are handed on to the engine.
EepromWrite(p, word_address, size, timeout, result) ==
    /\ p \in Handles
    /\ IF ~context_initialized
       THEN last' = [Call("eeprom_write", p, <<>>, Raise(NetworkInterfaceNotOpenError))
                     EXCEPT !.size = size]
       ELSE LET w == EepromWriteOutcome(size, result)
            IN  last' = [Call("eeprom_write", p, w.lowcalls, w.outcome)
                         EXCEPT !.size = size,
                                !.result = IF w.lowcalls = <<>> THEN 0 ELSE result,
                                !.timeout = IF w.lowcalls = <<>> THEN 0 ELSE timeout,
                                !.address = IF w.lowcalls = <<>> THEN 0
                                            ELSE word_address]
    /\ UNCHANGED <<context_initialized, slaves, ec_slavecount, ec_slave, cd,
                   emcy_callbacks, elist, EOEhook,
                   timeouts, ec_group, eoe_callback, eoe_rx_info, fed, assigned, od, with_block>>

\* CdefSlave.eeprom_read: the 4 bytes the engine answers, whatever they are.
EepromRead(p, word_address, timeout) ==
    /\ p \in Handles
    /\ IF ~context_initialized
       THEN last' = Call("eeprom_read", p, <<>>, Raise(NetworkInterfaceNotOpenError))
       ELSE last' = [Call("eeprom_read", p, <<"ecx_readeeprom">>, Return(BytesObj(4)))
                     EXCEPT !.timeout = timeout, !.address = word_address]
    /\ UNCHANGED <<context_initialized, slaves, ec_slavecount, ec_slave, cd,
                   emcy_callbacks, elist, EOEhook,
                   timeouts, ec_group, eoe_callback, eoe_rx_info, fed, assigned, od, with_block>>

\* The word addresses used: the first word and another.
WordAddresses == {0, 64}

\* The lengths of the data handed to eeprom_write.
DataSizes == 0..4

\* The timeouts handed to the EEPROM calls, in us: the default and two others.
EepromTimeouts == {20000, 1000, 0}

NextEeprom ==
    \/ \E r \in {0, 1} : Open(r)
    \/ Close
    \/ \E n \in FoundCounts : ConfigInit(n, EC_STATE_PRE_OP)
    \/ \E p \in Positions, a \in WordAddresses, size \in DataSizes, t \in EepromTimeouts,
          result \in Results :
          EepromWrite(p, a, size, t, result)
    \/ \E p \in Positions, a \in WordAddresses, t \in EepromTimeouts : EepromRead(p, a, t)

SpecEeprom == Init /\ [][NextEeprom]_vars

\* C17: on an open master, eeprom_write of data that is not 2 bytes long raises
\* AttributeError and makes no low-level call; of 2 bytes it makes exactly one
\* low-level EEPROM write and raises EepromError if and only if the result of
\* that write is not positive, returning None otherwise.
C17_EepromWriteOneWord ==
    (last.op = "eeprom_write" /\ last.init) =>
        /\ last.size # 2 =>
              /\ last.outcome = Raise(Exc("AttributeError"))
              /\ last.lowcalls = <<>>
        /\ last.size = 2 =>
              /\ last.lowcalls = <<"ecx_writeeeprom">>
              /\ (last.outcome = Raise(Exc("EepromError"))) <=> (last.result <= 0)
              /\ last.result > 0 => last.outcome = Return(NoneObj)

\* eeprom_write of 3 bytes on an open master was turned down.
C17_Witness ==
    /\ last.op = "eeprom_write"
    /\ last.init
    /\ last.size = 3
    /\ last.outcome = Raise(Exc("AttributeError"))

-----------------------------------------------------------------------------
(* EoE: the receive hook and the reassembly of frames *)

\* An EoE mailbox fragment as the decode step reads it: fragment number, frame
\* sequence number, declared frame size, frame offset, the length of its payload
\* and whether it is the frame's last one.
Frag(no, frameno, framesize, offset, len, lastfrag) ==
    [no |-> no, frameno |-> frameno, framesize |-> framesize, offset |-> offset,
     len |-> len, lastfrag |-> lastfrag]

\* The payload bytes of a sequence of fragments.
RECURSIVE PayloadOf(_)
PayloadOf(seq) == IF seq = <<>> THEN 0 ELSE Head(seq).len + PayloadOf(Tail(seq))

\* seq is fragments 0..Len(seq)-1 of one frame, in order, none but perhaps the
\* last of them terminal.
InOrder(seq) ==
    /\ seq # <<>>
    /\ \A i \in 1..Len(seq) :
          /\ seq[i].no = i - 1
          /\ seq[i].frameno = seq[1].frameno
          /\ seq[i].offset = PayloadOf(SubSeq(seq, 1, i - 1))
          /\ i < Len(seq) => ~seq[i].lastfrag

\* seq is all of one frame: fragments 0..N-1 in order, the last one terminal,
\* their payload the declared frame size, which the buffer can hold.
CompleteFrame(seq) ==
    /\ InOrder(seq)
    /\ seq[Len(seq)].lastfrag
    /\ PayloadOf(seq) = seq[1].framesize
    /\ PayloadOf(seq) <= EOE_RXBUF_SIZE

\* The fragments of the frame on its way once f arrived after `before`.
Track(before, f) == IF f.no = 0 THEN <<f>> ELSE before \o <<f>>

\* What is kept of them for the next fragment: nothing once the frame is
\* complete or broken.
FedAfter(track) ==
    IF /\ InOrder(track)
       /\ ~track[Len(track)].lastfrag
       /\ PayloadOf(track) <= EOE_RXBUF_SIZE
       /\ PayloadOf(track) <= track[1].framesize
    THEN track
    ELSE <<>>

\* The decode step of the engine, ecx_EOEreadfragment, on the slave's reassembly
\* state rx (rx.size_of_rx: the capacity of the buffer) and the fragment f: the
\* completion code and the state left.  A fragment 0 starts a frame; any other
\* fragment must be the one expected; a payload that does not fit the buffer or
\* the declared frame size, and a terminal fragment that leaves the frame short,
\* are invalid; an invalid fragment discards the state.  On completion
\* size_of_rx is the length of the frame.
EOEreadfragment(rx, f) ==
    LET starts == f.no = 0
        expected == IF starts THEN f.offset = 0
                    ELSE /\ f.no = rx.rxfragmentno
                         /\ f.frameno = rx.rxframeno
                         /\ f.offset = rx.rxframeoffset
        framesize == IF starts THEN f.framesize ELSE rx.rxframesize
        end == (IF starts THEN 0 ELSE rx.rxframeoffset) + f.len
        invalid == [wkc |-> -EC_ERR_TYPE_EOE_INVALID_RX_DATA,
                    rx |-> [FreshRxInfo EXCEPT !.size_of_rx = rx.size_of_rx]]
    IN  IF ~expected \/ end > rx.size_of_rx \/ end > framesize
        THEN invalid
        ELSE IF f.lastfrag
        THEN IF end = framesize
             THEN [wkc |-> 1, rx |-> [FreshRxInfo EXCEPT !.size_of_rx = end]]
             ELSE invalid
        ELSE [wkc |-> 0,
              rx |-> [rxfragmentno |-> f.no + 1, rxframesize |-> framesize,
                      rxframeoffset |-> end, rxframeno |-> f.frameno,
                      size_of_rx |-> rx.size_of_rx]]

EoeHookDispatchesNonNegative(wkc) == wkc >= 0

\* `if (wkc > 0)`: the frame is complete.
EoeHookDispatches(wkc) == wkc > 0

\* What _eoe_hook answers the engine when the callback was called or not and
\* `raised` tells what it raised: "no", "Exception" (the class or one derived
\* from it) or "BaseException" (one that is not, as KeyboardInterrupt).  The
\* `except Exception` clause lets the latter through; the function is noexcept,
\* so it is written out as unraisable and the function ends with the default
\* value of its return type.
EoeHookReturn(called, raised) ==
    IF called /\ raised = "BaseException" THEN 0 ELSE 1

\* _eoe_hook, called by the engine's receive processing for a fragment f that
\* arrived from `slave` while the hook is installed.
EoeHook(slave, f, raised) ==
    /\ context_initialized
    /\ EOEhook = "_eoe_hook"
    /\ slave \in Handles
    /\ LET rxInfo == [eoe_rx_info[slave] EXCEPT !.size_of_rx = EOE_RXBUF_SIZE]
           d == EOEreadfragment(rxInfo, f)
           called == EoeHookDispatches(d.wkc)
           track == Track(fed[slave], f)
       IN  /\ eoe_rx_info' = [eoe_rx_info EXCEPT ![slave] = d.rx]
           /\ fed' = [fed EXCEPT ![slave] = FedAfter(track)]
           /\ last' = [Call("_eoe_hook", slave, <<"ecx_EOEreadfragment">>,
                            Return(IntObj(EoeHookReturn(called, raised))))
                       EXCEPT !.result = d.wkc, !.fragment = f, !.fed = track,
                              !.raisers = IF called /\ raised # "no" THEN {raised}
                                          ELSE {},
                              !.dispatched =
                                  IF called
                                  THEN <<[callback |-> eoe_callback,
                                          payload |-> BytesObj(d.rx.size_of_rx),
                                          slave |-> slave]>>
                                  ELSE <<>>]
    /\ UNCHANGED <<context_initialized, slaves, ec_slavecount, ec_slave, cd,
                   emcy_callbacks, elist, EOEhook, timeouts, ec_group, eoe_callback,
                   assigned, od, with_block>>

\* The fragments on the wire: a frame of 96 bytes in three fragments, its last
\* fragment once more with half the payload, a frame of 2048 bytes in two
\* fragments and a frame of 32 bytes in one.
FragmentsOnWire ==
    {Frag(0, 1, 96, 0, 32, FALSE), Frag(1, 1, 96, 32, 32, FALSE),
     Frag(2, 1, 96, 64, 32, TRUE), Frag(2, 1, 96, 64, 16, TRUE),
     Frag(0, 2, 2048, 0, 1024, FALSE), Frag(1, 2, 2048, 1024, 1024, TRUE),
     Frag(0, 3, 32, 0, 32, TRUE)}

NextEoe ==
    \/ \E r \in {0, 1} : Open(r)
    \/ Close
    \/ \E n \in FoundCounts : ConfigInit(n, EC_STATE_PRE_OP)
    \/ \E cb \in {"None", "cb"} : SetEoeCallback(cb)
    \/ \E slave \in Positions, f \in FragmentsOnWire,
          raised \in {"no", "Exception", "BaseException"} : EoeHook(slave, f, raised)

SpecEoe == Init /\ [][NextEoe]_vars

\* The last step was the receive hook.
HookCall == last.op = "_eoe_hook"

\* C18: when the fragment that arrived completes fragments 0..N-1 of one frame
\* of declared size S, fed to that slave in order, the callback is invoked
\* exactly once, on that terminal fragment, with S bytes and the slave; it is
\* not invoked for a fragment that is not terminal, nor for one that is out of
\* order or whose payload does not fit the 1500 bytes of the buffer; a payload
\* handed to the callback is never shorter than the declared size.
C18_EoeReassembly ==
    HookCall =>
        /\ CompleteFrame(last.fed) =>
              last.dispatched = <<[callback |-> eoe_callback,
                                   payload |-> BytesObj(last.fed[1].framesize),
                                   slave |-> last.slave]>>
        /\ ~last.fragment.lastfrag => last.dispatched = <<>>
        /\ (~InOrder(last.fed) \/ PayloadOf(last.fed) > EOE_RXBUF_SIZE)
              => last.dispatched = <<>>
        /\ Len(last.dispatched) <= 1
        /\ \A i \in 1..Len(last.dispatched) :
              last.dispatched[i].payload.len = last.fed[1].framesize

\* The third fragment completed a frame of slave 2 while slave 1 is in the
\* middle of a frame of its own.
C18_Witness ==
    /\ HookCall
    /\ last.slave = 2
    /\ Len(last.fed) = 3
    /\ CompleteFrame(last.fed)
    /\ fed[1] # <<>>
    /\ last.dispatched # <<>>

\* C19: when the callback raised, the hook still returns 1 to the engine, and
\* it stays installed with the slave's reassembly state ready for the next frame.
C19_CallbackExceptionCaught ==
    (HookCall /\ last.raisers # {}) =>
        /\ last.outcome = Return(IntObj(1))
        /\ EOEhook = "_eoe_hook"
        /\ eoe_rx_info[last.slave].rxfragmentno = 0

-----------------------------------------------------------------------------
(* Explicit EoE receive *)

\* C20: on an open master eoe_recv_data is turned down, before any low-level
\* call, exactly when a frame callback is registered; when none is, it calls
\* the engine and returns the frame's bytes for a positive result, raises
\* EoeInvalidRxDataError for invalid data, PacketError with code 1 for data
\* that is not EoE, and returns None on a timeout.
C20_ExplicitReceive ==
    (last.op = "eoe_recv_data" /\ last.init) =>
        /\ eoe_callback # "None" =>
              /\ last.outcome = Raise(Exc("AssertionError"))
              /\ last.lowcalls = <<>>
        /\ eoe_callback = "None" =>
              /\ last.lowcalls = <<"ecx_EOErecv">>
              /\ last.result > 0 =>
                    /\ last.outcome.st = "return"
                    /\ last.outcome.ret.kind = "bytes"
              /\ last.result = -EC_ERR_TYPE_EOE_INVALID_RX_DATA =>
                    last.outcome = Raise(Exc("EoeInvalidRxDataError"))
              /\ last.result = -EC_ERR_TYPE_PACKET_ERROR =>
                    last.outcome = Raise(PacketError(last.slave, 1))
              /\ last.result = 0 => last.outcome = Return(NoneObj)

-----------------------------------------------------------------------------
(* The configuration callbacks: config_func and setup_func *)

\* The slaves on whose handle a callable was assigned last.
WithCallback == {p \in Positions : assigned[p].value # "None"}

\* What a mapping call is to hand the callbacks, in slave order: the callable
\* assigned last on each slave, with the 0-based index when it was assigned to
\* config_func and with the handle when it was assigned to setup_func.
ExpectedDispatch ==
    [i \in 1..Cardinality(WithCallback) |->
        LET p == CHOOSE q \in WithCallback :
                     Cardinality({r \in WithCallback : r < q}) = i - 1
        IN  [func |-> assigned[p].value,
             arg |-> IF assigned[p].prop = "config_func" THEN IntObj(p - 1)
                     ELSE [kind |-> "CdefSlave", pos |-> p]]]

\* The last call was a mapping call that reached the engine.
MappingRan == last.op \in {"config_map", "config_overlap_map"} /\ last.lowcalls # <<>>

\* C21: whatever was assigned to config_func and setup_func of the slaves
\* before, a mapping call invokes for each slave at most one callback, the one
\* assigned last: with the 0-based index when it was assigned to config_func,
\* with the handle when it was assigned to setup_func, and none after None was
\* assigned to either.
C21_OneCallbackTheLastAssigned ==
    MappingRan => last.dispatched = ExpectedDispatch

\* A mapping invoked a legacy callback for slave 1 and a successor callback for
\* slave 2.
C21_Witness ==
    /\ MappingRan
    /\ Len(last.dispatched) = 2
    /\ assigned[1].prop = "config_func"
    /\ assigned[2].prop = "setup_func"
    /\ last.dispatched[1].arg = IntObj(0)
    /\ last.dispatched[2].arg = [kind |-> "CdefSlave", pos |-> 2]

\* CdefSlave._get_PO2SOconfig / _get_PO2SOconfigEx: None while the slave's user
\* pointer is NULL, otherwise the object the pointer points to, which is the
\* handle's _CallbackData (the setters store <void*>self._cd), not its func.
GetPO2SOconfig(op, p) ==
    /\ p \in Handles
    /\ last' = Call(op, p, <<>>,
                    IF ec_slave[p].user = "NULL" THEN Return(NoneObj)
                    ELSE Return([kind |-> "_CallbackData", pos |-> p]))
    /\ UNCHANGED <<context_initialized, slaves, ec_slavecount, ec_slave, cd,
                   emcy_callbacks, elist, EOEhook,
                   timeouts, ec_group, eoe_callback, eoe_rx_info, fed, assigned, od, with_block>>

\* Reading slave.config_func
GetConfigFunc(p) == GetPO2SOconfig("get config_func", p)

\* Reading slave.setup_func
GetSetupFunc(p) == GetPO2SOconfig("get setup_func", p)

\* The values assigned to the two properties: None and two callables.
CallbackValues == {"None", "f", "g"}

NextCallbacks ==
    \/ \E r \in {0, 1} : Open(r)
    \/ Close
    \/ \E n \in FoundCounts : ConfigInit(n, EC_STATE_PRE_OP)
    \/ \E p \in Positions, v \in CallbackValues : SetConfigFunc(p, v)
    \/ \E p \in Positions, v \in CallbackValues : SetSetupFunc(p, v)
    \/ \E p \in Positions : GetConfigFunc(p)
    \/ \E p \in Positions : GetSetupFunc(p)

SpecCallbacks == Init /\ [][NextCallbacks]_vars

\* The Python object a value assigned to the properties stands for.
ValueObj(v) == IF v = "None" THEN NoneObj ELSE [kind |-> "callable", name |-> v]

\* C30: reading config_func or setup_func of a slave returns None when nothing
\* was assigned on that slave, and otherwise the value assigned last through
\* either of the two properties: the callable, or None after None.
C30_ReadsWhatWasAssigned ==
    last.op \in {"get config_func", "get setup_func"} =>
        last.outcome = Return(ValueObj(assigned[last.slave].value))

-----------------------------------------------------------------------------
(* Browsing the object dictionary *)

\* How many times the model lets one slave's od property be read.
MaxOdReads == 2

\* CdefCoeObject.__init__: neither the description nor the entries are read.
FreshCoeObject == [is_description_read |-> FALSE, are_entries_read |-> FALSE]

\* CdefSlave._get_od (property od): ecx_readODlist is called on every read and
\* answers `result`; when it is positive new CdefCoeObject instances are made.
\* The instances made by one read are kept as one: they share their fate.
GetOd(p, result) ==
    /\ p \in Handles
    /\ Len(od[p]) < MaxOdReads
    /\ IF ~(result > 0)
       THEN /\ last' = [Call("od", p, <<"ecx_readODlist">>, Raise(Exc("SdoInfoError")))
                        EXCEPT !.result = result]
            /\ UNCHANGED od
       ELSE /\ od' = [od EXCEPT ![p] = Append(@, FreshCoeObject)]
            /\ last' = [Call("od", p, <<"ecx_readODlist">>,
                             Return([kind |-> "list", of |-> "CdefCoeObject",
                                     read |-> Len(od[p]) + 1]))
                        EXCEPT !.result = result]
    /\ UNCHANGED <<context_initialized, slaves, ec_slavecount, ec_slave, cd,
                   emcy_callbacks, elist, EOEhook,
                   timeouts, ec_group, eoe_callback, eoe_rx_info, fed, assigned, with_block>>

\* CdefCoeObject._read_description / _read_entries of the instance handed out by
\* the g-th read of slave p's od: the engine is asked only while the flag is
\* not set, and the flag is set when the engine's answer `result` is positive.
ReadCoe(op, lowcall, flag, p, g, result) ==
    /\ p \in Handles
    /\ g \in 1..Len(od[p])
    /\ IF od[p][g][flag]
       THEN /\ last' = Call(op, p, <<>>, Return(NoneObj))
            /\ UNCHANGED od
       ELSE IF ~(result > 0)
       THEN /\ last' = [Call(op, p, <<lowcall>>, Raise(Exc("SdoInfoError")))
                        EXCEPT !.result = result]
            /\ UNCHANGED od
       ELSE /\ od' = [od EXCEPT ![p][g][flag] = TRUE]
            /\ last' = [Call(op, p, <<lowcall>>, Return(NoneObj))
                        EXCEPT !.result = result]
    /\ UNCHANGED <<context_initialized, slaves, ec_slavecount, ec_slave, cd,
                   emcy_callbacks, elist, EOEhook,
                   timeouts, ec_group, eoe_callback, eoe_rx_info, fed, assigned, with_block>>

ReadDescription(p, g, result) ==
    ReadCoe("_read_description", "ecx_readODdescription", "is_description_read",
            p, g, result)

ReadEntries(p, g, result) ==
    ReadCoe("_read_entries", "ecx_readOE", "are_entries_read", p, g, result)

\* The slaves whose dictionary is browsed: the first one.
Browsed == {p \in Positions : p = 1}

NextOd ==
    \/ \E r \in {0, 1} : Open(r)
    \/ Close
    \/ \E n \in FoundCounts : ConfigInit(n, EC_STATE_PRE_OP)
    \/ \E p \in Browsed, result \in {0, 1} : GetOd(p, result)
    \/ \E p \in Browsed, g \in 1..MaxOdReads, result \in {0, 1} : ReadDescription(p, g, result)
    \/ \E p \in Browsed, g \in 1..MaxOdReads, result \in {0, 1} : ReadEntries(p, g, result)

SpecOd == Init /\ [][NextOd]_vars

\* How many times the flagged part of slave p's objects was fetched with success.
Fetched(p, flag) == Cardinality({g \in 1..Len(od[p]) : od[p][g][flag]})

\* C22: for each slave the object list is fetched from the device once at most,
\* and so are the description and the entries of an object, however often and
\* in whatever order od and the objects' properties are read.
C22_FetchedOnce ==
    \A p \in Positions :
        /\ Len(od[p]) <= 1
        /\ Fetched(p, "is_description_read") <= 1
        /\ Fetched(p, "are_entries_read") <= 1

-----------------------------------------------------------------------------
(* The exception an error record is raised as *)

\* The exception class that goes with a record's type discriminant.
KindOf(etype) ==
    CASE etype = EC_ERR_TYPE_SDO_ERROR -> "SdoError"
      [] etype = EC_ERR_TYPE_MBX_ERROR -> "MailboxError"
      [] etype = EC_ERR_TYPE_PACKET_ERROR -> "PacketError"
      [] OTHER -> "Exception"

\* C23: when the record an sdo_read or sdo_write stopped at is an SDO abort, a
\* mailbox error or a packet error, the call raises the exception class of that
\* type, and the exception's slave_pos is the position of the slave the call
\* was made on.
C23_ErrorOfTheCalledSlave ==
    (/\ SdoCall
     /\ Popped # <<>>
     /\ Popped[Len(Popped)].Etype \in {EC_ERR_TYPE_SDO_ERROR, EC_ERR_TYPE_MBX_ERROR,
                                       EC_ERR_TYPE_PACKET_ERROR})
    => /\ last.outcome.st = "raise"
       /\ last.outcome.exc.kind = KindOf(Popped[Len(Popped)].Etype)
       /\ last.outcome.exc.slave_pos = last.slave

-----------------------------------------------------------------------------
(* The buffer of sdo_read *)

NextBuf ==
    \/ \E r \in {0, 1} : Open(r)
    \/ Close
    \/ \E n \in BothOrNone : ConfigInit(n, EC_STATE_PRE_OP)
    \/ \E p \in Subscribed : AddEmergencyCallback(p, Len(emcy_callbacks[p]) + 1)
    \/ \E p \in Positions, size \in {0, 8}, result \in {0, 1} :
          \E queued \in MbxQueues(p, Room) :
              \E raiseAt \in RaiseChoices(p, elist \o queued) :
                  SdoRead(p, size, 4, result, queued, raiseAt)

SpecBuf == Init /\ [][NextBuf]_vars

\* C24: an sdo_read that went to the engine with a buffer allocated for an
\* explicit size has freed it exactly once when it ends, however it ends; with
\* the default size nothing is freed.
C24_BufferFreedOnce ==
    (last.op = "sdo_read" /\ last.lowcalls # <<>>) =>
        last.frees = (IF last.size = 0 THEN 0 ELSE 1)

-----------------------------------------------------------------------------
(* File access over EtherCAT *)

\* The timeouts a caller gives a file access.
FoeTimeouts == {DEFAULT_FOE_TIMEOUT, 1000}

NextFoe ==
    \/ \E r \in {0, 1} : Open(r)
    \/ Close
    \/ \E n \in BothOrNone : ConfigInit(n, EC_STATE_PRE_OP)
    \/ \E value \in TimeoutValues : SetSdoReadTimeout(value)
    \/ \E value \in TimeoutValues : SetSdoWriteTimeout(value)
    \/ \E p \in Positions, size_inout \in {0, 8}, result \in {0, 1}, timeout \in FoeTimeouts :
          \E queued \in SeqsUpTo(ReadErrs(p), Room) :
              FoeRead(p, 8, size_inout, result, queued, timeout)
    \/ \E p \in Positions, result \in {0, 1}, timeout \in FoeTimeouts :
          \E queued \in SeqsUpTo(ReadErrs(p), Room) :
              FoeWrite(p, 8, result, queued, timeout)

SpecFoe == Init /\ [][NextFoe]_vars

\* The last call was a file access that reached the engine.
FoeCall ==
    /\ last.op \in {"foe_read", "foe_write"}
    /\ last.lowcalls # <<>>

-----------------------------------------------------------------------------
(* Records left behind *)

\* The last call was one of the calls that assert on the slave of a record.
AssertingCall ==
    /\ last.op \in {"sdo_read", "foe_read", "foe_write", "eoe_recv_data"}
    /\ last.lowcalls # <<>>

\* C26: every record popped by sdo_read, foe_read, foe_write or eoe_recv_data
\* on a slave names that slave, so that the assertion on it never fails.
C26_PoppedRecordsNameTheSlave ==
    AssertingCall =>
        /\ \A i \in 1..Len(Popped) : Popped[i].Slave = last.slave
        /\ last.outcome # Raise(Exc("AssertionError"))

-----------------------------------------------------------------------------
(* The context manager pysoem.open(ifname) *)

\* Entering `with pysoem.open(ifname) as master`: the generator makes a new
\* Master and opens it, ecx_init answering ret_val.  A failed open raises out
\* of the with-statement before the block; otherwise the generator stops at
\* its yield and the block begins.
WithEnter(ret_val) ==
    /\ with_block = "outside"
    /\ context_initialized' = (ret_val # 0)
    /\ slaves' = [none |-> TRUE, items |-> <<>>]
    /\ ec_slavecount' = 0
    /\ ec_slave' = [p \in Positions |-> SlaveEntry(0)]
    /\ cd' = [p \in Positions |-> FreshCd]
    /\ emcy_callbacks' = [p \in Positions |-> <<>>]
    /\ elist' = <<>>
    /\ EOEhook' = "NULL"
    /\ sdo_read_timeout' = DEFAULT_SDO_TIMEOUT
    /\ sdo_write_timeout' = DEFAULT_SDO_TIMEOUT
    /\ ec_group' = [outputsWKC |-> 0, inputsWKC |-> 0]
    /\ eoe_callback' = "None"
    /\ eoe_rx_info' = [p \in Positions |-> FreshRxInfo]
    /\ fed' = [p \in Positions |-> <<>>]
    /\ assigned' = [p \in Positions |-> NeverAssigned]
    /\ od' = [p \in Positions |-> <<>>]
    /\ with_block' = (IF ret_val = 0 THEN "outside" ELSE "inside")
    /\ last' = [Call("with open", 0, <<"ecx_init">>,
                     IF ret_val = 0 THEN Raise(Exc("ConnectionError"))
                     ELSE Return(NoneObj))
                EXCEPT !.init = (ret_val # 0)]

\* What the generator does after its yield: master.close() when it is resumed,
\* nothing when the exception of the block is thrown into it.
AfterYield(raised) == IF raised THEN <<>> ELSE <<"ecx_close">>

\* Leaving the with-block, by reaching its end or by an exception raised in it.
WithExit(raised) ==
    /\ with_block = "inside"
    /\ with_block' = "outside"
    /\ context_initialized' =
           (IF AfterYield(raised) = <<>> THEN context_initialized ELSE FALSE)
    /\ last' = Call("with exit", 0, AfterYield(raised),
                    IF raised THEN Raise(Exc("BlockException")) ELSE Return(NoneObj))
    /\ UNCHANGED <<slaves, ec_slavecount, ec_slave, cd, emcy_callbacks, elist, EOEhook,
                   timeouts, ec_group, eoe_callback, eoe_rx_info, fed, assigned, od>>

\* The block works on the master it was given; the master is out of reach
\* once the block is left.
NextWith ==
    \/ \E r \in {0, 1} : WithEnter(r)
    \/ \E raised \in BOOLEAN : WithExit(raised)
    \/ with_block = "inside" /\ \E n \in FoundCounts : ConfigInit(n, EC_STATE_PRE_OP)
    \/ with_block = "inside" /\ \E value \in TimeoutValues : SetSdoReadTimeout(value)
    \/ with_block = "inside" /\ \E value \in TimeoutValues : SetSdoWriteTimeout(value)
    \/ with_block = "inside" /\ \E cb \in {"None", "cb"} : SetEoeCallback(cb)
    \/ with_block = "inside" /\ Close

SpecWith == Init /\ [][NextWith]_vars

\* C27: the master made by pysoem.open(ifname) is closed whenever the
\* with-block has been left, normally or by an exception, and a failed open
\* never enters the block.
C27_ClosedWhenBlockLeft ==
    /\ (last.op = "with exit" =>
           /\ ~context_initialized
           /\ last.lowcalls = <<"ecx_close">>)
    /\ (last.op = "with open" /\ last.outcome.st = "raise" => with_block = "outside")

-----------------------------------------------------------------------------
(* Assigning slave.output *)

\* The most output bytes the model gives one slave, and the longest value it
\* assigns.
MaxObytes == 2
MaxValueLen == 4

\* The layouts the engine's mapping may leave: the output bytes of each slave,
\* at least one each, packed from the start of the IO map in the order of the
\* positions; the inputs follow the outputs.
Layouts == [Positions -> 1..MaxObytes]

\* ec_slave[p].outputs as an offset into the IO map.
OutputsOffset(p, obytes) == IF p = 1 THEN 0 ELSE obytes[1]

\* The output region of slave p: Obytes bytes from ec_slave[p].outputs on.
OutputRegion(p, obytes) ==
    {OutputsOffset(p, obytes) + i : i \in 0..(obytes[p] - 1)}

\* The bytes memcpy(outputs, value, len(value)) writes.
MemcpyRange(p, obytes, len) ==
    {OutputsOffset(p, obytes) + i : i \in 0..(len - 1)}

\* CdefSlave._set_output(value) with a bytes object of `len` bytes, under the
\* layout `obytes`: len(value) bytes are copied to the slave's outputs; no check
\* of the context and none of the length.
SetOutput(p, obytes, len) ==
    /\ p \in Handles
    /\ last' = [Call("set output", p, <<"memcpy">>, Return(NoneObj))
                EXCEPT !.size = len,
                       !.region = OutputRegion(p, obytes),
                       !.written = MemcpyRange(p, obytes, len)]
    /\ UNCHANGED <<context_initialized, slaves, ec_slavecount, ec_slave, cd,
                   emcy_callbacks, elist, EOEhook,
                   timeouts, ec_group, eoe_callback, eoe_rx_info, fed, assigned, od,
                   with_block>>

NextOut ==
    \/ \E r \in {0, 1} : Open(r)
    \/ Close
    \/ \E n \in FoundCounts : ConfigInit(n, EC_STATE_PRE_OP)
    \/ \E p \in Positions, obytes \in Layouts, len \in 0..MaxValueLen :
          SetOutput(p, obytes, len)
    \/ \E p \in Positions, obytes \in Layouts :
          GetOutput(p, [bytes |-> obytes[p], bits |-> 8 * obytes[p]])

SpecOut == Init /\ [][NextOut]_vars

\* C28: assigning slave.output writes inside the output region of that slave
\* only, whatever the length of the value.
C28_WritesOwnRegionOnly ==
    last.op = "set output" => last.written \subseteq last.region

-----------------------------------------------------------------------------
(* amend_mbx that raises *)

\* C29: an amend_mbx that raises leaves the cached mailbox configuration of
\* every slave (sync-manager start address and length, mailbox offset and
\* length) as it was before the call.
C29_RaisingAmendKeepsCache ==
    [][(last'.op = "amend_mbx" /\ last'.outcome.st = "raise")
          => ec_slave' = ec_slave]_vars

====
